---------------------------- MODULE Spec2Model ----------------------------
(***************************************************************************)
(* Model of the Python analyzer facade (python-analyzer-mcp):              *)
(*   src/services/python_analyzer.py  PythonAnalyzer                       *)
(*   src/tools/python_tools.py        PythonTools                          *)
(*   src/main.py                      call_tool (tool-call transport)      *)
(*   http_server.py                   Resource.post (HTTP transport)       *)
(*                                                                         *)
(* Text is a sequence of tokens; the text it stands for is the tokens      *)
(* written one after the other.  Tokens are maximal: two number tokens,    *)
(* or ":" and "=", are never adjacent, and every blank is a token of its   *)
(* own, so every substring and regular-expression test of the source       *)
(* falls on token boundaries.                                              *)
(***************************************************************************)
EXTENDS Integers, Sequences, FiniteSets, TLC

VARIABLES
    current_version,  \* PythonAnalyzer.current_version (sys.version_info[:2])
    has,              \* the HAS_* import flags, one per capability
    files,            \* temporary files that exist on disk
    pc,               \* per invocation: where the handler stands
    req,              \* per invocation: the request being served
    created,          \* per invocation: f.name of the NamedTemporaryFile
    temp_path,        \* per invocation: the local temp_path
    pending,          \* per invocation: what the inner try block produced
    ret,              \* per invocation: what the facade operation returned or raised
    answer,           \* per invocation: what the external capability answered
    result,           \* per invocation: what the transport hands back
    served,           \* number of requests delivered
    fn_pc,            \* pure-function harness: which function was applied
    fn_code,          \* pure-function harness: the source text
    fn_target,        \* pure-function harness: the target version
    fn_out            \* pure-function harness: the function's value

vars == <<current_version, has, files, pc, req, created, temp_path, pending, ret,
          answer, result, served, fn_pc, fn_code, fn_target, fn_out>>

facadeVars == <<has, files, pc, req, created, temp_path, pending, ret, answer, result, served>>
fnVars == <<fn_pc, fn_code, fn_target, fn_out>>

---------------------------------------------------------------------------
\* Optional values: None is the empty sequence, a present value a singleton.
None == <<>>
Some(x) == <<x>>

---------------------------------------------------------------------------
\* Text primitives

NumTokens == {"0", "1", "2", "3", "5", "6", "7", "8", "9", "10", "11", "12", "07"}
WordTokens == {"match", "x", "y", "s", "v", "a", "f", "pdf", "if", "case", "_",
               "pass", "print", "def", "async", "await", "int", "None",
               "Union", "python", "Python", "requires", "Requires", "rematch"}
CmpTokens == {">=", "<=", "==", ">", "<", "="}
SpaceTokens == {" ", "\n", "\t"}

\* \d+
IsNum(t) == t \in NumTokens
\* \w : the token ends / starts with a word character
IsWord(t) == t \in WordTokens \cup NumTokens
\* \s
IsSpace(t) == t \in SpaceTokens
\* [>=<]+
IsCmp(t) == t \in CmpTokens

\* int(s) of a digit string
ToInt(t) ==
    CASE t = "0" -> 0 [] t = "1" -> 1 [] t = "2" -> 2 [] t = "3" -> 3
      [] t = "5" -> 5 [] t = "6" -> 6 [] t = "7" -> 7 [] t = "8" -> 8
      [] t = "9" -> 9 [] t = "10" -> 10 [] t = "11" -> 11 [] t = "12" -> 12
      [] t = "07" -> 7

\* f'{n}' of an int
Str(n) == <<"0", "1", "2", "3", "4", "5", "6", "7", "8", "9", "10", "11", "12">>[n + 1]

\* str.lower(), token by token
LowerTok(t) ==
    CASE t = "Python" -> "python"
      [] t = "Requires" -> "requires"
      [] t = "Undefined" -> "undefined"
      [] t = "Error" -> "error"
      [] OTHER -> t

Lower(s) == [i \in 1..Len(s) |-> LowerTok(s[i])]

\* pat in s
Contains(s, pat) ==
    \E i \in 1..(Len(s) - Len(pat) + 1) : SubSeq(s, i, i + Len(pat) - 1) = pat

\* s.startswith(pat)
StartsWith(s, pat) == Len(s) >= Len(pat) /\ SubSeq(s, 1, Len(pat)) = pat

\* the pieces of s between the separators standing at the positions in at
SplitAt(s, at) ==
    LET n == Cardinality(at)
        Cut(k) == IF k = 0 THEN 0
                  ELSE IF k = n + 1 THEN Len(s) + 1
                  ELSE CHOOSE i \in at : Cardinality({j \in at : j <= i}) = k
    IN  [k \in 1..(n + 1) |-> SubSeq(s, Cut(k - 1) + 1, Cut(k) - 1)]

\* s.split(sep): never empty, "" gives [""]
Split(s, sep) == SplitAt(s, {i \in 1..Len(s) : s[i] = sep})

\* seq[:n]
Take(seq, n) == SubSeq(seq, 1, IF Len(seq) < n THEN Len(seq) ELSE n)

\* tuple comparison a < b on (major, minor)
VLess(a, b) == a[1] < b[1] \/ (a[1] = b[1] /\ a[2] < b[2])

\* the least element of a non-empty set of positions
Least(S) == CHOOSE i \in S : \A j \in S : i <= j

\* the first position at or after i whose token is not matched by the class
RECURSIVE SkipCmp(_, _)
SkipCmp(s, i) == IF i <= Len(s) /\ IsCmp(s[i]) THEN SkipCmp(s, i + 1) ELSE i
RECURSIVE SkipSpace(_, _)
SkipSpace(s, i) == IF i <= Len(s) /\ IsSpace(s[i]) THEN SkipSpace(s, i + 1) ELSE i
RECURSIVE SkipWord(_, _)
SkipWord(s, i) == IF i <= Len(s) /\ IsWord(s[i]) THEN SkipWord(s, i + 1) ELSE i

\* \b before position i
BoundaryBefore(s, i) == i = 1 \/ ~IsWord(s[i - 1])


---------------------------------------------------------------------------
\* Version detector

HeadLines == 10

\* re.search(r'python(\d+)\.?(\d+)?', line) followed by the (major, minor) the
\* caller builds from the groups; None when the pattern is not found
ShebangVersion(line) ==
    LET at == {i \in 1..(Len(line) - 1) : line[i] = "python" /\ IsNum(line[i + 1])}
    IN  IF at = {} THEN None
        ELSE LET i == Least(at)
                 minor == IF i + 3 <= Len(line) /\ line[i + 2] = "." /\ IsNum(line[i + 3])
                          THEN ToInt(line[i + 3]) ELSE 0
             IN  Some(<<ToInt(line[i + 1]), minor>>)

\* re.search(r'python[>=<]+(\d+)\.(\d+)', line, re.IGNORECASE) and its groups
RequiresVersion(line) ==
    LET ok(i) == /\ LowerTok(line[i]) = "python"
                 /\ i + 1 <= Len(line) /\ IsCmp(line[i + 1])
                 /\ LET j == SkipCmp(line, i + 1)
                    IN  j + 2 <= Len(line) /\ IsNum(line[j])
                        /\ line[j + 1] = "." /\ IsNum(line[j + 2])
        at == {i \in 1..Len(line) : ok(i)}
    IN  IF at = {} THEN None
        ELSE LET j == SkipCmp(line, Least(at) + 1)
             IN  Some(<<ToInt(line[j]), ToInt(line[j + 2])>>)

\* the body of the loop over the first lines: one line's verdict
LineVersion(line) ==
    LET sb == IF StartsWith(line, <<"#!">>) /\ Contains(line, <<"python">>)
              THEN ShebangVersion(line) ELSE None
        rq == IF Contains(Lower(line), <<"requires">>) /\ Contains(Lower(line), <<"python">>)
              THEN RequiresVersion(line) ELSE None
    IN  IF sb # None THEN sb ELSE rq

\* the loop: the first line that yields a version decides
RECURSIVE ScanHead(_)
ScanHead(lines) ==
    IF lines = <<>> THEN None
    ELSE IF LineVersion(Head(lines)) # None THEN LineVersion(Head(lines))
    ELSE ScanHead(Tail(lines))

\* re.search(r'\bmatch\s+\w+:', code)
MatchStmt(code) ==
    \E i \in 1..Len(code) :
        /\ code[i] = "match" /\ BoundaryBefore(code, i)
        /\ i + 1 <= Len(code) /\ IsSpace(code[i + 1])
        /\ LET j == SkipSpace(code, i + 1)
           IN  /\ j <= Len(code) /\ IsWord(code[j])
               /\ LET k == SkipWord(code, j)
                  IN  k <= Len(code) /\ code[k] \in {":", ":="}

\* ':=' in code
Walrus(code) == Contains(code, <<":=">>)

\* re.search(r'f["\']', code): a token ending in f, then a quote
FString(code) ==
    \E i \in 1..(Len(code) - 1) : code[i] \in {"f", "pdf", "if"} /\ code[i + 1] = "'"

\* re.search(r'\bprint\s+[^(]', code): \s+ gives one blank back to [^(] when
\* two or more blanks follow print
PrintStmt(code) ==
    \E i \in 1..Len(code) :
        /\ code[i] = "print" /\ BoundaryBefore(code, i)
        /\ i + 1 <= Len(code) /\ IsSpace(code[i + 1])
        /\ LET j == SkipSpace(code, i + 1)
           IN  j - (i + 1) >= 2 \/ (j <= Len(code) /\ code[j] # "(")

\* a variant that looks for ':=' before the union bar
detect_from_syntax_walrus_first(code) ==
    IF MatchStmt(code) THEN Some(<<3, 10>>)
    ELSE IF Walrus(code) THEN Some(<<3, 8>>)
    ELSE IF Contains(code, <<" ", "|", " ">>) /\ ~Contains(code, <<"Union">>) THEN Some(<<3, 10>>)
    ELSE IF FString(code) THEN Some(<<3, 6>>)
    ELSE IF Contains(code, <<"async", " ", "def">>) \/ Contains(code, <<"await", " ">>)
         THEN Some(<<3, 5>>)
    ELSE IF Contains(code, <<"print", "(">>) THEN Some(<<3, 0>>)
    ELSE IF PrintStmt(code) THEN Some(<<2, 7>>)
    ELSE None

detect_from_syntax(code) ==
    IF MatchStmt(code) THEN Some(<<3, 10>>)
    ELSE IF Contains(code, <<" ", "|", " ">>) /\ ~Contains(code, <<"Union">>) THEN Some(<<3, 10>>)
    ELSE IF Walrus(code) THEN Some(<<3, 8>>)
    ELSE IF FString(code) THEN Some(<<3, 6>>)
    ELSE IF Contains(code, <<"async", " ", "def">>) \/ Contains(code, <<"await", " ">>)
         THEN Some(<<3, 5>>)
    ELSE IF Contains(code, <<"print", "(">>) THEN Some(<<3, 0>>)
    ELSE IF PrintStmt(code) THEN Some(<<2, 7>>)
    ELSE None

detect_python_version(code) ==
    LET head == ScanHead(Take(Split(code, "\n"), HeadLines))
        version == detect_from_syntax(code)
    IN  IF head # None THEN head[1]
        ELSE IF version # None THEN version[1]
        ELSE current_version

---------------------------------------------------------------------------
\* Diagnostics

\* DiagnosticInfo(...) followed by _diagnostic_to_dict
DiagnosticInfo(message, category, code, file, line, column, severity) ==
    [message |-> message, category |-> category, code |-> code, file |-> file,
     line |-> line, column |-> column, severity |-> severity]

\* f'{target_version[0]}.{target_version[1]}'
VersionStr(v) == <<Str(v[1]), ".", Str(v[2])>>

CompatWarning(text, code, target_version) ==
    DiagnosticInfo(<<text>> \o VersionStr(target_version), "CompatibilityWarning",
                   code, None, None, None, "warning")

\* a variant that also warns when the target is the minimum version itself
MatchWarningInclusive(code, target_version) ==
    IF ~VLess(<<3, 10>>, target_version) /\ MatchStmt(code)
    THEN <<CompatWarning("match/case requires Python 3.10+, target is ", "W9010", target_version)>>
    ELSE <<>>

MatchWarning(code, target_version) ==
    IF VLess(target_version, <<3, 10>>) /\ MatchStmt(code)
    THEN <<CompatWarning("match/case requires Python 3.10+, target is ", "W9010", target_version)>>
    ELSE <<>>

WalrusWarning(code, target_version) ==
    IF VLess(target_version, <<3, 8>>) /\ Walrus(code)
    THEN <<CompatWarning("Walrus operator (:=) requires Python 3.8+, target is ", "W9008", target_version)>>
    ELSE <<>>

FStringWarning(code, target_version) ==
    IF VLess(target_version, <<3, 6>>) /\ FString(code)
    THEN <<CompatWarning("f-strings require Python 3.6+, target is ", "W9006", target_version)>>
    ELSE <<>>

check_feature_compatibility(code, target_version) ==
    MatchWarning(code, target_version) \o WalrusWarning(code, target_version)
        \o FStringWarning(code, target_version)


---------------------------------------------------------------------------
\* Source texts

\* '\n'.join(lines)
RECURSIVE Join(_)
Join(lines) ==
    IF lines = <<>> THEN <<>>
    ELSE IF Len(lines) = 1 THEN lines[1]
    ELSE lines[1] \o <<"\n">> \o Join(Tail(lines))

SeqsUpTo(S, n) == UNION {[1..m -> S] : m \in 0..n}

Blanks(k) == [i \in 1..k |-> <<>>]

L_shebang310 == <<"#!", "/usr/bin/env", " ", "python", "3", ".", "10">>
L_shebang2 == <<"#!", "/usr/bin/", "python", "2">>
L_shebangReq == <<"#!", "/usr/bin/env", " ", "python", " ", "#", " ", "requires",
                  " ", "python", ">=", "3", ".", "9">>
L_requires38 == <<"#", " ", "requires", ":", " ", "python", ">=", "3", ".", "8">>
L_Requires36 == <<"#", " ", "Requires", " ", "Python", "==", "3", ".", "6">>
L_match == <<"match", " ", "x", ":">>
L_case == <<" ", "case", " ", "_", ":", " ", "pass">>
L_walrus == <<"print", "(", "y", " ", ":=", " ", "1", ")">>
L_fstring == <<"s", " ", "=", " ", "f", "'", "a", "'">>
L_walrusF == <<"if", " ", "(", "y", " ", ":=", " ", "f", "'", "a", "'", ")", ":", " ", "pass">>
L_plain == <<"y", " ", "=", " ", "2">>
L_print2 == <<"print", " ", "x">>

MaxLines == 2

FnLines == {L_shebang310, L_shebang2, L_shebangReq, L_requires38, L_Requires36,
            L_match, L_walrus, L_fstring, L_walrusF, L_plain, L_print2}

L_union == <<"v", ":", " ", "int", " ", "|", " ", "None">>
L_unionU == <<"v", ":", " ", "Union", "[", "int", "]", " ", "|", " ", "None">>
L_asyncdef == <<"async", " ", "def", " ", "f", "(", ")", ":", " ", "pass">>
L_await == <<"await", " ", "f", "(", ")">>
L_printcall == <<"print", "(", "x", ")">>

\* a line for each syntax marker of _detect_from_syntax
MarkerLines == {L_match, L_union, L_unionU, L_walrus, L_fstring, L_asyncdef, L_await,
                L_printcall, L_print2, L_plain}

\* the marker lines alone, or pushed to the edge of the scanned head of the file
FnCodes == {Join(Blanks(k) \o ls) : k \in {0, HeadLines - 1, HeadLines},
                                    ls \in SeqsUpTo(FnLines, MaxLines)}
           \cup {Join(ls) : ls \in SeqsUpTo(MarkerLines, MaxLines)}

FnTargets == {<<2, 7>>, <<3, 5>>, <<3, 6>>, <<3, 7>>, <<3, 8>>, <<3, 10>>, <<3, 11>>}

\* the interpreters the package can be imported under (list[str] in the
\* dataclasses needs 3.9)
RuntimeVersions == {<<3, 9>>, <<3, 12>>}

\* invocation 1 is served alone; invocations 2 and 3 run side by side
Procs == {1, 2, 3}
Workers == {2, 3}

\* the optional libraries behind the HAS_* flags
Caps == {"black", "radon", "pyflakes", "mypy", "vulture", "pylint", "jedi", "autopep8"}

FacadeIdle ==
    /\ files = {}
    /\ pc = [p \in Procs |-> "idle"]
    /\ req = [p \in Procs |-> None]
    /\ created = [p \in Procs |-> None]
    /\ temp_path = [p \in Procs |-> None]
    /\ pending = [p \in Procs |-> None]
    /\ ret = [p \in Procs |-> None]
    /\ answer = [p \in Procs |-> None]
    /\ result = [p \in Procs |-> None]
    /\ served = 0

---------------------------------------------------------------------------
\* The pure functions, applied to drawn inputs

InitFn ==
    /\ current_version \in RuntimeVersions
    /\ has = [c \in Caps |-> TRUE]
    /\ FacadeIdle
    /\ fn_pc = "in"
    /\ fn_code \in FnCodes
    /\ fn_target \in FnTargets
    /\ fn_out = None

ApplyDetect ==
    /\ fn_pc = "in"
    /\ fn_pc' = "detect_python_version"
    /\ fn_out' = detect_python_version(fn_code)
    /\ UNCHANGED <<current_version, facadeVars, fn_code, fn_target>>

ApplyCompat ==
    /\ fn_pc = "in"
    /\ fn_pc' = "check_feature_compatibility"
    /\ fn_out' = check_feature_compatibility(fn_code, fn_target)
    /\ UNCHANGED <<current_version, facadeVars, fn_code, fn_target>>

NextFn == ApplyDetect \/ ApplyCompat

SpecFn == InitFn /\ [][NextFn]_vars

---------------------------------------------------------------------------
\* Outcomes of a call: a returned value or a raised exception (its str())

Return(v) == [raised |-> FALSE, value |-> v]
Raise(e) == [raised |-> TRUE, exc |-> e]

\* s.strip()
LStrip(s) == SubSeq(s, Least({i \in 1..Len(s) : ~IsSpace(s[i])} \cup {Len(s) + 1}), Len(s))
RStrip(s) ==
    LET kept == {i \in 1..Len(s) : ~IsSpace(s[i])} \cup {0}
    IN  SubSeq(s, 1, CHOOSE i \in kept : \A j \in kept : j <= i)
Strip(s) == RStrip(LStrip(s))

\* int(s): None stands for ValueError
IntOf(s) == IF Len(Strip(s)) = 1 /\ IsNum(Strip(s)[1]) THEN Some(ToInt(Strip(s)[1])) ELSE None

\* sum(1 for d in diagnostics if d.severity == severity)
CountSeverity(diagnostics, severity) ==
    Cardinality({i \in 1..Len(diagnostics) : diagnostics[i].severity = severity})

---------------------------------------------------------------------------
\* The syntax-tree parser (ast.parse), on the statements of the model's sources

L_annassign == <<"x", ":", " ", "int", " ", "=", " ", "1">>
L_def == <<"def", " ", "f", "(", ")", ":", " ", "pass">>
L_class == <<"class", " ", "A", ":", " ", "pass">>
L_surrogate == <<"s", " ", "=", " ", "'", "<U+DC80>", "'">>

L_unpack == <<"a", ",", " ", "b", " ", "=", " ", "1", ",", " ", "2">>
L_attrann == <<"a", ".", "x", ":", " ", "int", " ", "=", " ", "1">>
L_subann == <<"a", "[", "0", "]", ":", " ", "int", " ", "=", " ", "1">>
L_bareann == <<"v", ":", " ", "int">>
L_classvar == <<"class", " ", "A", ":", " ", "v", ":", " ", "int", " ", "=", " ", "1">>

\* a class and a function whose bodies are indented blocks, and their lines
L_classhead == <<"class", " ", "B", ":">>
L_defhead == <<"def", " ", "h", "(", ")", ":">>
L_method == <<" ", "def", " ", "g", "(", ")", ":", " ", "pass">>
L_methodhead == <<" ", "def", " ", "g", "(", ")", ":">>
L_field == <<" ", "v", ":", " ", "int", " ", "=", " ", "1">>
L_deep == <<" ", " ", "s", ":", " ", "int", " ", "=", " ", "1">>

BlockHeads == {L_classhead, L_defhead, L_methodhead}
IndentedStmts == {L_method, L_methodhead, L_field, L_deep}

\* the width of the blanks a line starts with
Indent(line) == Len(line) - Len(LStrip(line))

\* the line after a block head is indented more than the head
Opens(lines, i) ==
    /\ i < Len(lines) /\ LStrip(lines[i + 1]) # <<>>
    /\ Indent(lines[i + 1]) > Indent(lines[i])

\* an indented line belongs to the block of the nearest line above it that is
\* indented less: that line is a block head and the block has this indentation
InBlock(lines, i) ==
    LET above == {j \in 1..(i - 1) : /\ LStrip(lines[j]) # <<>>
                                     /\ Indent(lines[j]) < Indent(lines[i])}
    IN  /\ above # {}
        /\ LET j == CHOOSE k \in above : \A m \in above : m <= k
           IN  lines[j] \in BlockHeads /\ Indent(lines[j + 1]) = Indent(lines[i])

SimpleStmts == {L_plain, L_walrus, L_walrusF, L_fstring, L_annassign, L_def, L_class,
                L_unpack, L_attrann, L_subann, L_bareann, L_classvar, L_asyncdef}

LineParses(lines, i) ==
    \/ lines[i] = <<>>
    \/ lines[i][1] \in {"#", "#!"}
    \/ lines[i] \in SimpleStmts
    \/ /\ lines[i] \in BlockHeads \cup IndentedStmts
       /\ lines[i] \in BlockHeads => Opens(lines, i)
       /\ lines[i] \in IndentedStmts => InBlock(lines, i)
    \/ /\ lines[i] = L_match /\ ~VLess(current_version, <<3, 10>>)
       /\ i < Len(lines) /\ lines[i + 1] = L_case
    \/ lines[i] = L_case /\ i > 1 /\ lines[i - 1] = L_match

\* ast.parse(code, filename=file_name): the tree (the statement lines), a
\* SyntaxError, or the UnicodeEncodeError a lone surrogate gives
ast_parse(code) ==
    LET lines == Split(code, "\n")
        bad == {i \in 1..Len(lines) : ~LineParses(lines, i)}
    IN  IF Contains(code, <<"<U+DC80>">>)
        THEN [ok |-> FALSE, syntax |-> FALSE,
              exc |-> "'utf-8' codec can't encode character: surrogates not allowed"]
        ELSE IF bad # {}
        THEN [ok |-> FALSE, syntax |-> TRUE, msg |-> <<"invalid syntax">>,
              lineno |-> Least(bad), offset |-> 1]
        ELSE [ok |-> TRUE, tree |-> lines]

---------------------------------------------------------------------------
\* The static-error detector (pyflakes)

\* re.match(r'^(.+?):(\d+):(\d+): (.+)$', line): the groups, or None
PyflakesMatch(line) ==
    LET at == {i \in 2..(Len(line) - 6) :
                 /\ line[i] = ":" /\ IsNum(line[i + 1]) /\ line[i + 2] = ":"
                 /\ IsNum(line[i + 3]) /\ line[i + 4] = ":" /\ line[i + 5] = " "}
    IN  IF at = {} THEN None
        ELSE LET i == Least(at)
             IN  Some([line_no |-> line[i + 1], col_no |-> line[i + 3],
                       message |-> SubSeq(line, i + 6, Len(line))])

\* a variant that makes an error of every message mentioning 'undefined'
PyflakesSeverityAnyUndefined(message) ==
    IF Contains(Lower(message), <<"undefined">>) THEN "error" ELSE "warning"

\* a variant with a third severity for what is neither of the two patterns
PyflakesSeverityInfo(message) ==
    IF \/ Contains(Lower(message), <<"undefined", " ", "name">>)
       \/ Contains(Lower(message), <<"imported", " ", "but", " ", "unused">>)
    THEN IF Contains(Lower(message), <<"undefined">>) THEN "error" ELSE "warning"
    ELSE "info"

PyflakesSeverity(message) ==
    IF \/ Contains(Lower(message), <<"undefined", " ", "name">>)
       \/ Contains(Lower(message), <<"imported", " ", "but", " ", "unused">>)
    THEN IF Contains(Lower(message), <<"undefined">>) THEN "error" ELSE "warning"
    ELSE "warning"

\* a variant that keeps a line the pattern does not match, at line 0
PyflakesLineLoose(line, file_name) ==
    IF line = <<>> THEN <<>>
    ELSE IF PyflakesMatch(line) = None
    THEN <<DiagnosticInfo(line, "PyflakesWarning", "F0001", Some(file_name),
                          Some(0), Some(0), "warning")>>
    ELSE LET m == PyflakesMatch(line)[1]
         IN  <<DiagnosticInfo(m.message, "PyflakesWarning", "F0001", Some(file_name),
                              Some(ToInt(m.line_no)), Some(ToInt(m.col_no)),
                              PyflakesSeverity(m.message))>>

\* one turn of the loop over the output lines
PyflakesLine(line, file_name) ==
    IF line = <<>> \/ PyflakesMatch(line) = None THEN <<>>
    ELSE LET m == PyflakesMatch(line)[1]
         IN  <<DiagnosticInfo(m.message, "PyflakesWarning", "F0001", Some(file_name),
                              Some(ToInt(m.line_no)), Some(ToInt(m.col_no)),
                              PyflakesSeverity(m.message))>>

RECURSIVE PyflakesLines(_, _)
PyflakesLines(lines, file_name) ==
    IF lines = <<>> THEN <<>>
    ELSE PyflakesLine(Head(lines), file_name) \o PyflakesLines(Tail(lines), file_name)

\* a variant that drops the diagnostics parsed before the exception
run_pyflakes_discarding(code, file_name, env) ==
    IF env.fault = None
    THEN PyflakesLines(Split(Strip(env.output), "\n"), file_name)
    ELSE <<>>

\* _run_pyflakes: env.output is what the reporter's stream holds; env.fault is
\* None, or Some(k) when an exception is raised once k lines have been parsed
\* (k = 0: pyflakes.api.check itself raised)
run_pyflakes(code, file_name, env) ==
    LET lines == Split(Strip(env.output), "\n")
    IN  IF env.fault = None THEN PyflakesLines(lines, file_name)
        ELSE PyflakesLines(Take(lines, env.fault[1]), file_name)

---------------------------------------------------------------------------
\* PythonAnalyzer.analyze_code

AnalyzeResult(success, target_version, diagnostics, error_count, warning_count) ==
    [success |-> success, detected_version |-> VersionStr(target_version),
     diagnostics |-> diagnostics, error_count |-> error_count,
     warning_count |-> warning_count]

\* a variant that goes on to the compatibility check and the static-error
\* detector after a syntax error
analyze_code_continuing(code, file_name, target_version, env) ==
    LET version == IF target_version = None THEN detect_python_version(code)
                   ELSE target_version[1]
        parsed == ast_parse(code)
        syntax == IF ~parsed.ok /\ parsed.syntax
                  THEN <<DiagnosticInfo(parsed.msg, "SyntaxError", "E0001", Some(file_name),
                                        Some(parsed.lineno), Some(parsed.offset), "error")>>
                  ELSE <<>>
        diagnostics ==
            syntax \o check_feature_compatibility(code, version)
                \o (IF has["pyflakes"] THEN run_pyflakes(code, file_name, env) ELSE <<>>)
        error_count == CountSeverity(diagnostics, "error")
    IN  IF ~parsed.ok /\ ~parsed.syntax THEN Raise(parsed.exc)
        ELSE Return(AnalyzeResult(error_count = 0, version, diagnostics, error_count,
                                  CountSeverity(diagnostics, "warning")))

analyze_code(code, file_name, target_version, env) ==
    LET version == IF target_version = None THEN detect_python_version(code)
                   ELSE target_version[1]
        parsed == ast_parse(code)
        diagnostics ==
            check_feature_compatibility(code, version)
                \o (IF has["pyflakes"] THEN run_pyflakes(code, file_name, env) ELSE <<>>)
        error_count == CountSeverity(diagnostics, "error")
    IN  IF ~parsed.ok /\ ~parsed.syntax THEN Raise(parsed.exc)
        ELSE IF ~parsed.ok
        THEN Return(AnalyzeResult(FALSE, version,
                 <<DiagnosticInfo(parsed.msg, "SyntaxError", "E0001", Some(file_name),
                                  Some(parsed.lineno), Some(parsed.offset), "error")>>,
                 1, 0))
        ELSE Return(AnalyzeResult(error_count = 0, version, diagnostics, error_count,
                                  CountSeverity(diagnostics, "warning")))

---------------------------------------------------------------------------
\* PythonTools

\* a variant that passes an absent value on as the empty string
OrStrAsGiven(opt, default) == IF opt = None THEN "" ELSE opt[1]

\* file_name or "temp.py"
OrStr(opt, default) == IF opt = None \/ opt = Some("") THEN default ELSE opt[1]

\* a variant that reads the major number only
ParseVersionMajor(python_version) ==
    LET major == IntOf(Split(python_version, ".")[1])
    IN  IF major = None THEN None ELSE Some(<<major[1], 0>>)

\* a variant that falls back on version 3.0 when a number cannot be read
ParseVersionDefaulting(python_version) ==
    LET parts == Split(python_version, ".")
        major == IntOf(parts[1])
        minor == IF Len(parts) > 1 THEN IntOf(parts[2]) ELSE Some(0)
    IN  IF major = None \/ minor = None THEN Some(<<3, 0>>) ELSE Some(<<major[1], minor[1]>>)

\* the try block of PythonTools.analyze_code: (int(parts[0]), int(parts[1]) if
\* len(parts) > 1 else 0), None when int() raises ValueError
ParseVersion(python_version) ==
    LET parts == Split(python_version, ".")
        major == IntOf(parts[1])
        minor == IF Len(parts) > 1 THEN IntOf(parts[2]) ELSE Some(0)
    IN  IF major = None \/ minor = None THEN None ELSE Some(<<major[1], minor[1]>>)

\* a PythonTools method: the facade operation it calls, with which arguments,
\* and what that call returns or raises
Called(op, args, out) == [op |-> op, args |-> args, out |-> out]

tools_analyze_code(code, file_name, python_version, env) ==
    LET target_version ==
            IF python_version # None /\ python_version[1] # <<>> /\ python_version[1] # <<"auto">>
            THEN ParseVersion(python_version[1]) ELSE None
    IN  Called("analyze_code", <<code, OrStr(file_name, "temp.py"), target_version>>,
               analyze_code(code, OrStr(file_name, "temp.py"), target_version, env))


\* filter if filter and filter != 'all' else None
FilterKind(filter) == IF filter # None /\ filter # Some("") /\ filter # Some("all") THEN filter ELSE None

\* max_line_length or 79
OrInt(opt, default) == IF opt = None \/ opt = Some(0) THEN default ELSE opt[1]

---------------------------------------------------------------------------
\* The syntax tree

\* an ast statement node; target is the node of an assignment's target,
\* annotation the text of its annotation, body the statements nested in it
Node(type, name, target, annotation, lineno, col_offset, body) ==
    [type |-> type, name |-> name, target |-> target, annotation |-> annotation,
     lineno |-> lineno, col_offset |-> col_offset, body |-> body]

IndexOf(s, t) == Least({i \in 1..Len(s) : s[i] = t} \cup {Len(s) + 1})

\* the number of characters of a token
TokWidth(t) ==
    CASE t \in {"class", "async", "match", "print"} -> 5
      [] t \in {"case", "pass"} -> 4
      [] t \in {"def", "int"} -> 3
      [] t \in {"if", ":="} -> 2
      [] OTHER -> 1

RECURSIVE Width(_)
Width(s) == IF s = <<>> THEN 0 ELSE TokWidth(Head(s)) + Width(Tail(s))

\* the expression node an assignment target parses to
Target(ts) ==
    IF Len(ts) = 1 /\ IsWord(ts[1]) THEN [type |-> "Name", id |-> ts[1]]
    ELSE IF \E i \in 1..Len(ts) : ts[i] = "," THEN [type |-> "Tuple", id |-> ""]
    ELSE IF Len(ts) >= 2 /\ ts[2] = "." THEN [type |-> "Attribute", id |-> ""]
    ELSE IF Len(ts) >= 2 /\ ts[2] = "[" THEN [type |-> "Subscript", id |-> ""]
    ELSE [type |-> "Expr", id |-> ""]

NoTarget == [type |-> "", id |-> ""]

\* the node of a simple statement that starts at column col of line lineno
SimpleNode(s, lineno, col) ==
    LET colon == IndexOf(s, ":")
        eq == IndexOf(s, "=")
    IN  IF s = <<"pass">> THEN Node("Pass", "", NoTarget, <<>>, lineno, col, <<>>)
        ELSE IF colon < eq
        THEN Node("AnnAssign", "", Target(Strip(SubSeq(s, 1, colon - 1))),
                  Strip(SubSeq(s, colon + 1, eq - 1)), lineno, col, <<>>)
        ELSE IF eq <= Len(s)
        THEN Node("Assign", "", Target(Strip(SubSeq(s, 1, eq - 1))), <<>>, lineno, col, <<>>)
        ELSE Node("Expr", "", NoTarget, <<>>, lineno, col, <<>>)

\* the lines of the block a head on line i opens: those below it, down to the
\* next line indented no more than the head, that are indented least
BlockOf(lines, i) ==
    LET stop == Least({j \in (i + 1)..Len(lines) : /\ LStrip(lines[j]) # <<>>
                                                   /\ Indent(lines[j]) <= Indent(lines[i])}
                      \cup {Len(lines) + 1})
        inner == {j \in (i + 1)..(stop - 1) : /\ LStrip(lines[j]) # <<>>
                                              /\ LStrip(lines[j])[1] \notin {"#", "#!"}}
        direct == {j \in inner : \A k \in inner : Indent(lines[j]) <= Indent(lines[k])}
        nth(k) == CHOOSE j \in direct : Cardinality({m \in direct : m < j}) = k - 1
    IN  [k \in 1..Cardinality(direct) |-> [type |-> "line", line |-> nth(k)]]

\* the node of the statement on line i of the parsed text: a compound statement
\* holds the simple statement that follows its colon or else the statements of
\* its indented block, a match statement the case clause of the next line
StmtNode(lines, i) ==
    LET s == LStrip(lines[i])
        col == Len(lines[i]) - Len(s)
        colon == IndexOf(s, ":")
        inline == Strip(SubSeq(s, colon + 1, Len(s)))
        body == IF inline = <<>> THEN BlockOf(lines, i)
                ELSE <<SimpleNode(inline, i, col + Width(SubSeq(s, 1, colon)) + 1)>>
        compound(type, name) == Node(type, name, NoTarget, <<>>, i, col, body)
    IN  CASE s[1] = "class" -> compound("ClassDef", s[3])
          [] s[1] = "def" -> compound("FunctionDef", s[3])
          [] s[1] = "async" /\ Len(s) >= 5 /\ s[3] = "def" -> compound("AsyncFunctionDef", s[5])
          [] s[1] = "if" -> compound("If", "")
          [] s[1] = "case" -> compound("match_case", "")
          [] s[1] = "match" ->
                Node("Match", "", NoTarget, <<>>, i, col,
                     IF i < Len(lines) /\ LStrip(lines[i + 1]) # <<>> /\ LStrip(lines[i + 1])[1] = "case"
                     THEN <<[type |-> "line", line |-> i + 1]>> ELSE <<>>)
          [] OTHER -> SimpleNode(s, i, col)

\* the statements of the module body, in order
ModuleBody(tree) ==
    LET at == {i \in 1..Len(tree) : /\ LStrip(tree[i]) # <<>>
                                    /\ LStrip(tree[i])[1] \notin {"#", "#!"}
                                    /\ Indent(tree[i]) = 0}
        nth(k) == CHOOSE i \in at : Cardinality({j \in at : j < i}) = k - 1
    IN  [k \in 1..Cardinality(at) |-> StmtNode(tree, nth(k))]

RECURSIVE Chain(_)
Chain(seqs) == IF seqs = <<>> THEN <<>> ELSE Head(seqs) \o Chain(Tail(seqs))

\* the statements nested directly in the given nodes, in order
Children(tree, nodes) ==
    Chain([k \in 1..Len(nodes) |->
              [j \in 1..Len(nodes[k].body) |->
                  IF nodes[k].body[j].type = "line"
                  THEN StmtNode(tree, nodes[k].body[j].line) ELSE nodes[k].body[j]]])

\* ast.walk(tree): breadth first, so every statement of one depth comes before
\* any statement nested deeper
RECURSIVE WalkFrom(_, _)
WalkFrom(tree, nodes) ==
    IF nodes = <<>> THEN <<>> ELSE nodes \o WalkFrom(tree, Children(tree, nodes))

\* a variant that stops at the statements of the module body
ast_walk_top(tree) == ModuleBody(tree)

ast_walk(tree) == WalkFrom(tree, ModuleBody(tree))

---------------------------------------------------------------------------
\* PythonAnalyzer.get_symbols

SymbolInfo(name, kind, line, column, type_annotation, is_async) ==
    [name |-> name, kind |-> kind, line |-> line, column |-> column,
     type_annotation |-> type_annotation, container_name |-> None,
     is_async |-> is_async, decorators |-> None]

\* a variant that takes every assignment to a simple name for a variable
extract_symbol_assign(node) ==
    IF node.type = "ClassDef"
    THEN <<SymbolInfo(node.name, "class", node.lineno, node.col_offset, None, FALSE)>>
    ELSE IF node.type \in {"FunctionDef", "AsyncFunctionDef"}
    THEN <<SymbolInfo(node.name, "function", node.lineno, node.col_offset, None,
                      node.type = "AsyncFunctionDef")>>
    ELSE IF node.type \in {"AnnAssign", "Assign"} /\ node.target.type = "Name"
    THEN <<SymbolInfo(node.target.id, "variable", node.lineno, node.col_offset,
                      IF node.type = "AnnAssign" THEN Some(node.annotation) ELSE None, FALSE)>>
    ELSE <<>>

\* _extract_symbol(node, code): a list of zero or one symbol
extract_symbol(node) ==
    IF node.type = "ClassDef"
    THEN <<SymbolInfo(node.name, "class", node.lineno, node.col_offset, None, FALSE)>>
    ELSE IF node.type \in {"FunctionDef", "AsyncFunctionDef"}
    THEN <<SymbolInfo(node.name, "function", node.lineno, node.col_offset, None,
                      node.type = "AsyncFunctionDef")>>
    ELSE IF node.type \in {"AnnAssign", "Assign"}
    THEN IF node.type = "AnnAssign" /\ node.target.type = "Name"
         THEN <<SymbolInfo(node.target.id, "variable", node.lineno, node.col_offset,
                           Some(node.annotation), FALSE)>>
         ELSE <<>>
    ELSE <<>>

\* a variant of the loop that ignores the filter
WalkSymbolsUnfiltered(nodes, i, filter_kind) ==
    Chain([k \in 1..(Len(nodes) + 1 - i) |-> extract_symbol(nodes[k + i - 1])])

\* the loop of get_symbols over ast.walk(tree), from node i on
RECURSIVE WalkSymbols(_, _, _)
WalkSymbols(nodes, i, filter_kind) ==
    IF i > Len(nodes) THEN <<>>
    ELSE LET symbol == extract_symbol(nodes[i])
             kept == IF symbol # <<>> /\ (filter_kind = None \/ filter_kind = Some("all")
                                          \/ Some(symbol[1].kind) = filter_kind)
                     THEN symbol ELSE <<>>
         IN  kept \o WalkSymbols(nodes, i + 1, filter_kind)

\* a variant that reports the symbols defined above the line of the syntax error
get_symbols_partial(code, file_name, filter_kind) ==
    LET parsed == ast_parse(code)
    IN  IF ~parsed.ok /\ ~parsed.syntax THEN Raise(parsed.exc)
        ELSE LET tree == IF parsed.ok THEN parsed.tree
                         ELSE Take(Split(code, "\n"), parsed.lineno - 1)
                 symbols == WalkSymbols(ast_walk(tree), 1, filter_kind)
             IN  Return([success |-> parsed.ok, symbols |-> symbols, count |-> Len(symbols)])

get_symbols(code, file_name, filter_kind) ==
    LET parsed == ast_parse(code)
    IN  IF ~parsed.ok /\ ~parsed.syntax THEN Raise(parsed.exc)
        ELSE IF ~parsed.ok
        THEN Return([success |-> FALSE, error |-> "Syntax error in code",
                     symbols |-> <<>>, count |-> 0])
        ELSE LET symbols == WalkSymbols(ast_walk(parsed.tree), 1, filter_kind)
             IN  Return([success |-> TRUE, symbols |-> symbols, count |-> Len(symbols)])

---------------------------------------------------------------------------
\* The formatters

\* what a formatter hands back for a text it accepts: trailing blanks dropped,
\* one newline at the end
Reformat(code) == IF RStrip(code) = <<>> THEN <<>> ELSE RStrip(code) \o <<"\n">>

\* a variant without the HAS_BLACK guard: the use of the unbound name raises
\* NameError inside the try block
format_code_unguarded(code, env) ==
    IF ~has["black"]
    THEN Return([success |-> FALSE, error |-> "name 'black' is not defined", formatted_code |-> code])
    ELSE IF env.fault # None
    THEN Return([success |-> FALSE, error |-> env.fault[1], formatted_code |-> code])
    ELSE Return([success |-> TRUE, formatted_code |-> Reformat(code)])

\* env.fault: None, or Some(str(e)) of the exception the formatter raises
format_code(code, env) ==
    IF ~has["black"]
    THEN Return([success |-> FALSE, error |-> "black is not installed", formatted_code |-> code])
    ELSE IF env.fault # None
    THEN Return([success |-> FALSE, error |-> env.fault[1], formatted_code |-> code])
    ELSE Return([success |-> TRUE, formatted_code |-> Reformat(code)])

\* a variant that hands back no text when the formatter raised
format_with_autopep8_blank(code, max_line_length, env) ==
    IF ~has["autopep8"]
    THEN Return([success |-> FALSE, error |-> "autopep8 is not installed", formatted_code |-> code])
    ELSE IF env.fault # None
    THEN Return([success |-> FALSE, error |-> env.fault[1], formatted_code |-> <<>>])
    ELSE Return([success |-> TRUE, formatted_code |-> Reformat(code)])

format_with_autopep8(code, max_line_length, env) ==
    IF ~has["autopep8"]
    THEN Return([success |-> FALSE, error |-> "autopep8 is not installed", formatted_code |-> code])
    ELSE IF env.fault # None
    THEN Return([success |-> FALSE, error |-> env.fault[1], formatted_code |-> code])
    ELSE Return([success |-> TRUE, formatted_code |-> Reformat(code)])

---------------------------------------------------------------------------
\* PythonAnalyzer.calculate_metrics

\* sum(item.complexity for item in complexity_results)
RECURSIVE Sum(_)
Sum(seq) == IF seq = <<>> THEN 0 ELSE Head(seq) + Sum(Tail(seq))

\* n / d of two numbers: the quotient as the fraction <<numerator, denominator>>,
\* or ZeroDivisionError
Div(n, d) == IF d = 0 THEN Raise("division by zero") ELSE Return(<<n, d>>)

\* a variant that divides whatever the number of units
AvgComplexityUnguarded(complexity_results) ==
    Div(Sum(complexity_results), Len(complexity_results))

\* total_complexity / len(complexity_results) if complexity_results else 0.0
AvgComplexity(complexity_results) ==
    IF complexity_results # <<>> THEN Div(Sum(complexity_results), Len(complexity_results))
    ELSE Return(<<0, 1>>)

\* sum(1 for node in ast.walk(tree) if isinstance(node, types))
CountNodes(tree, types) ==
    Cardinality({k \in 1..Len(ast_walk(tree)) : ast_walk(tree)[k].type \in types})

\* a variant that keeps the structure counts when a measurement raises
calculate_metrics_partial(code, file_name, env) ==
    LET parsed == ast_parse(code)
    IN  IF ~has["radon"] THEN Return([success |-> FALSE, error |-> "radon is not installed"])
        ELSE IF ~parsed.ok
        THEN Return([success |-> FALSE,
                     error |-> IF parsed.syntax THEN "invalid syntax" ELSE parsed.exc])
        ELSE IF env.fault # None
        THEN Return([success |-> FALSE, error |-> env.fault[1],
                     metrics |-> [function_count |-> CountNodes(parsed.tree, {"FunctionDef", "AsyncFunctionDef"}),
                                  class_count |-> CountNodes(parsed.tree, {"ClassDef"})]])
        ELSE Return([success |-> TRUE,
                     metrics |-> [lines_of_code |-> env.raw.loc,
                                  comment_lines |-> env.raw.comments,
                                  blank_lines |-> env.raw.blank,
                                  total_lines |-> env.raw.loc + env.raw.comments + env.raw.blank,
                                  cyclomatic_complexity |-> Sum(env.cc),
                                  maintainability_index |-> env.mi,
                                  function_count |-> CountNodes(parsed.tree, {"FunctionDef", "AsyncFunctionDef"}),
                                  class_count |-> CountNodes(parsed.tree, {"ClassDef"}),
                                  average_complexity |-> AvgComplexity(env.cc).value]])

\* env.fault: None, or Some(str(e)) raised by cc_visit, mi_visit or analyze;
\* env.cc, env.mi, env.raw: what they return
calculate_metrics(code, file_name, env) ==
    LET parsed == ast_parse(code)
    IN  IF ~has["radon"] THEN Return([success |-> FALSE, error |-> "radon is not installed"])
        ELSE IF ~parsed.ok
        THEN Return([success |-> FALSE,
                     error |-> IF parsed.syntax THEN "invalid syntax" ELSE parsed.exc])
        ELSE IF env.fault # None THEN Return([success |-> FALSE, error |-> env.fault[1]])
        ELSE IF AvgComplexity(env.cc).raised
        THEN Return([success |-> FALSE, error |-> AvgComplexity(env.cc).exc])
        ELSE Return([success |-> TRUE,
                     metrics |-> [lines_of_code |-> env.raw.loc,
                                  comment_lines |-> env.raw.comments,
                                  blank_lines |-> env.raw.blank,
                                  total_lines |-> env.raw.loc + env.raw.comments + env.raw.blank,
                                  cyclomatic_complexity |-> Sum(env.cc),
                                  maintainability_index |-> env.mi,
                                  function_count |-> CountNodes(parsed.tree, {"FunctionDef", "AsyncFunctionDef"}),
                                  class_count |-> CountNodes(parsed.tree, {"ClassDef"}),
                                  average_complexity |-> AvgComplexity(env.cc).value]])

---------------------------------------------------------------------------
\* PythonAnalyzer.get_completions

MaxCompletions == 50

\* a variant that keeps the last candidates instead of the first
get_completions_last(code, line, column, env) ==
    IF ~has["jedi"] THEN Return([success |-> FALSE, error |-> "jedi is not installed"])
    ELSE IF env.fault # None THEN Return([success |-> FALSE, error |-> env.fault[1]])
    ELSE LET n == Len(env.completions)
             skip == IF n > MaxCompletions THEN n - MaxCompletions ELSE 0
             suggestions ==
                 [i \in 1..(n - skip) |->
                     [name |-> env.completions[i + skip].name,
                      type |-> env.completions[i + skip].type,
                      description |-> env.completions[i + skip].description,
                      signature |-> IF env.completions[i + skip].signatures # <<>>
                                    THEN Some(env.completions[i + skip].signatures[1]) ELSE None]]
         IN  Return([success |-> TRUE, completions |-> suggestions, count |-> Len(suggestions)])

\* env.fault: None, or Some(str(e)) raised by jedi; env.completions: its list
get_completions(code, line, column, env) ==
    IF ~has["jedi"] THEN Return([success |-> FALSE, error |-> "jedi is not installed"])
    ELSE IF env.fault # None THEN Return([success |-> FALSE, error |-> env.fault[1]])
    ELSE LET suggestions ==
                 [i \in 1..Len(Take(env.completions, MaxCompletions)) |->
                     [name |-> env.completions[i].name, type |-> env.completions[i].type,
                      description |-> env.completions[i].description,
                      signature |-> IF env.completions[i].signatures # <<>>
                                    THEN Some(env.completions[i].signatures[1]) ELSE None]]
         IN  Return([success |-> TRUE, completions |-> suggestions, count |-> Len(suggestions)])


---------------------------------------------------------------------------
\* PythonAnalyzer.type_check: parsing what mypy printed

\* s.split(sep, n): only the first n separators cut
SplitMax(s, sep, n) ==
    LET at == {i \in 1..Len(s) : s[i] = sep}
    IN  SplitAt(s, {i \in at : Cardinality({j \in at : j < i}) < n})

\* one turn of the loop over stdout's lines (parts[k] of the source is parts[k + 1])
MypyLine(line, file_name) ==
    IF line = <<>> \/ ~Contains(line, <<":">>) THEN <<>>
    ELSE LET parts == SplitMax(line, ":", 4)
         IN  IF Len(parts) < 4 \/ IntOf(parts[2]) = None THEN <<>>
             ELSE LET col_no == IF Len(Strip(parts[3])) = 1 /\ IsNum(Strip(parts[3])[1])
                                THEN ToInt(Strip(parts[3])[1]) ELSE 0
                      message == Strip(parts[4])
                  IN  <<DiagnosticInfo(message, "TypeCheck", "MYPY", Some(file_name),
                                       Some(IntOf(parts[2])[1]), Some(col_no),
                                       IF Contains(Lower(message), <<"error">>)
                                       THEN "error" ELSE "warning")>>

RECURSIVE MypyLines(_, _)
MypyLines(lines, file_name) ==
    IF lines = <<>> THEN <<>>
    ELSE MypyLine(Head(lines), file_name) \o MypyLines(Tail(lines), file_name)

\* the inner try block of type_check once mypy_api.run has returned
type_check_result(stdout, exit_code, file_name) ==
    LET diagnostics == MypyLines(Split(Strip(stdout), "\n"), file_name)
    IN  [success |-> exit_code = 0, diagnostics |-> diagnostics,
         error_count |-> CountSeverity(diagnostics, "error"),
         warning_count |-> CountSeverity(diagnostics, "warning")]

---------------------------------------------------------------------------
\* PythonAnalyzer.comprehensive_lint: parsing what pylint printed

PylintCodes == {"C0116", "W0611", "R0201", "I0011", "E0001", "F0001"}

\* code[0]
FirstChar(code) ==
    CASE code = "C0116" -> "C" [] code = "W0611" -> "W" [] code = "R0201" -> "R"
      [] code = "I0011" -> "I" [] code = "E0001" -> "E" [] code = "F0001" -> "F"

\* (.+?)(?:\s+\([^)]+\))?$ : the message without a closing " (symbol-name)"
PylintMessage(rest) ==
    LET body == RStrip(SubSeq(rest, 1, Len(rest) - 1))
    IN  IF /\ Len(rest) >= 3
           /\ rest[Len(rest)] \in {"(missing-function-docstring)", "(unused-import)"}
           /\ IsSpace(rest[Len(rest) - 1]) /\ body # <<>>
        THEN body ELSE rest

\* re.match(r'^.+?:(\d+):(\d+): ([WCEFIR]\d+): (.+?)(?:\s+\([^)]+\))?$', line.strip())
PylintMatch(line) ==
    LET s == Strip(line)
        at == {i \in 2..(Len(s) - 9) :
                 /\ s[i] = ":" /\ IsNum(s[i + 1]) /\ s[i + 2] = ":" /\ IsNum(s[i + 3])
                 /\ s[i + 4] = ":" /\ s[i + 5] = " " /\ s[i + 6] \in PylintCodes
                 /\ s[i + 7] = ":" /\ s[i + 8] = " "}
    IN  IF at = {} THEN None
        ELSE LET i == Least(at)
             IN  Some([line_no |-> s[i + 1], col_no |-> s[i + 3], code |-> s[i + 6],
                       message |-> PylintMessage(SubSeq(s, i + 9, Len(s)))])

\* a variant that counts a fatal message as a warning
PylintSeverityErrorOnly(code) == IF FirstChar(code) = "E" THEN "error" ELSE "warning"

\* severity = 'error' if code[0] in ['E', 'F'] else 'warning'
PylintSeverity(code) == IF FirstChar(code) \in {"E", "F"} THEN "error" ELSE "warning"

PylintLine(line, file_name) ==
    IF line = <<>> \/ ~Contains(line, <<":">>) \/ PylintMatch(line) = None THEN <<>>
    ELSE LET m == PylintMatch(line)[1]
         IN  <<DiagnosticInfo(m.message, "Pylint", m.code, Some(file_name),
                              Some(ToInt(m.line_no)), Some(ToInt(m.col_no)),
                              PylintSeverity(m.code))>>

RECURSIVE PylintLines(_, _)
PylintLines(lines, file_name) ==
    IF lines = <<>> THEN <<>>
    ELSE PylintLine(Head(lines), file_name) \o PylintLines(Tail(lines), file_name)

\* the inner try block of comprehensive_lint once PylintRun has returned
lint_result(output, file_name) ==
    LET diagnostics == PylintLines(Split(output, "\n"), file_name)
        error_count == CountSeverity(diagnostics, "error")
    IN  [success |-> error_count = 0, diagnostics |-> diagnostics,
         error_count |-> error_count,
         warning_count |-> CountSeverity(diagnostics, "warning")]

---------------------------------------------------------------------------
\* PythonAnalyzer.detect_dead_code: the items vulture reports

dead_code_result(items) ==
    LET unused_items ==
            [i \in 1..Len(items) |->
                [name |-> items[i].name, type |-> items[i].typ,
                 line |-> items[i].first_lineno, confidence |-> items[i].confidence,
                 message |-> <<"Unused ", items[i].typ, ": ", items[i].name>>]]
    IN  [success |-> TRUE, unused_code |-> unused_items, count |-> Len(unused_items)]


---------------------------------------------------------------------------
\* Requests and what the environment may answer

Transports == {"tool", "http"}

FileOps == {"type_check", "detect_dead_code", "comprehensive_lint"}

CapOf(name) ==
    CASE name = "type_check" -> "mypy"
      [] name = "detect_dead_code" -> "vulture"
      [] name = "comprehensive_lint" -> "pylint"

C_match == Join(<<L_match, L_case>>)
C_features == Join(<<L_requires38, L_match, L_case, L_walrusF>>)
C_typed == Join(<<L_annassign, L_plain, L_def, L_class>>)

\* match x: with no body is a syntax error; a lone surrogate makes the parser
\* and the file write raise UnicodeEncodeError
FacadeCodes == {C_match, L_match, C_features, C_typed, L_surrogate, <<>>}

NoArgs == [k \in {} |-> None]
Opt(key, values) == {NoArgs} \cup {[k \in {key} |-> v] : v \in values}

\* arguments.get(key) / data.get(key): None when the field is absent
Get(arguments, key) == IF key \in DOMAIN arguments THEN Some(arguments[key]) ELSE None

\* arguments.get(key, default)
GetOr(arguments, key, default) ==
    IF key \in DOMAIN arguments THEN Some(arguments[key]) ELSE Some(default)

CodeArgs == Opt("code", FacadeCodes)
FileArgs == {a @@ b : a \in CodeArgs, b \in Opt("fileName", {"a.py"})}
\* every source with a target version or none; the source with a version marker
\* and features also with a major alone, 'auto', and strings that are no numbers
AnalyzeArgs ==
    {a @@ b : a \in FileArgs,
              b \in Opt("pythonVersion", {<<"3", ".", "7">>, <<"3", ".", "11">>})}
    \cup {[code |-> c, pythonVersion |-> v] :
             c \in {C_features},
             v \in {<<"3">>, <<"auto">>, <<"abc">>, <<"3", ".", "x">>}}
\* sources for get_symbols: the statement kinds _extract_symbol tells apart, at
\* the top level and nested, and one with a syntax error after its definitions
C_xy == Join(<<L_annassign, L_plain>>)
C_targets == Join(<<L_unpack, L_attrann, L_subann, L_bareann>>)
C_nested == Join(<<L_classvar, L_def, L_annassign>>)
C_broken == Join(<<L_annassign, L_def, L_match>>)
\* a method and a field in a class block, a local in a function block, a local
\* of a method, and a block head with no block
C_method == Join(<<L_classhead, L_method, L_field, L_annassign>>)
C_local == Join(<<L_defhead, L_field, L_class>>)
C_deep == Join(<<L_classhead, L_methodhead, L_deep, L_field>>)
C_headless == Join(<<L_classhead, L_annassign>>)
SymbolCodes == {C_typed, C_xy, C_targets, C_nested, L_asyncdef, C_broken, L_surrogate, <<>>,
                C_method, C_local, C_deep, C_headless}

SymbolArgs ==
    {a @@ b @@ c : a \in Opt("code", SymbolCodes), b \in Opt("fileName", {"a.py"}),
                   c \in Opt("filter", {"all", "class", "function", "variable"})}
CompletionArgs == {a @@ b @@ c : a \in CodeArgs, b \in Opt("line", {1}), c \in Opt("column", {0})}
Autopep8Args == {a @@ b : a \in CodeArgs, b \in Opt("maxLineLength", {0, 100})}

MaxOut == 2

\* a stream holding the given lines, each ended by a newline
Stream(lines) == IF lines = <<>> THEN <<>> ELSE Join(lines) \o <<"\n">>

P_undefined == <<"temp.py", ":", "1", ":", "7", ":", " ", "undefined", " ", "name", " ", "'x'">>
P_unused == <<"temp.py", ":", "1", ":", "1", ":", " ", "'os'", " ", "imported", " ", "but", " ", "unused">>
P_maybe == <<"temp.py", ":", "2", ":", "7", ":", " ", "'x'", " ", "may", " ", "be", " ", "undefined",
             ",", " ", "or", " ", "defined", " ", "from", " ", "star", " ", "imports", ":", " ", "os">>
P_unusedUndefined == <<"temp.py", ":", "1", ":", "1", ":", " ", "'", "undefined", "'", " ",
                       "imported", " ", "but", " ", "unused">>
P_malformed == <<"temp.py", ":", "1", ":", " ", "invalid syntax">>

PyflakesOutputs ==
    {Stream(ls) : ls \in SeqsUpTo({P_undefined, P_unused, P_maybe, P_unusedUndefined, P_malformed}, MaxOut)}

\* fault: None, or Some(k): pyflakes.api.check raises (k = 0), or the turn of
\* the loop for line k + 1 does
PyflakesEnvs ==
    UNION {{[output |-> o, fault |-> f] :
               f \in {None} \cup {Some(k) : k \in 0..(Len(Split(Strip(o), "\n")) - 1)}} :
           o \in PyflakesOutputs}

QuietEnv == [output |-> <<>>, fault |-> None]

Faults(msg) == {[fault |-> None], [fault |-> Some(msg)]}

MetricsEnvs ==
    {[fault |-> Some(msg)] : msg \in {"cc_visit failed", "mi_visit failed", "analyze failed"}} \cup
    {[fault |-> None, cc |-> cc, mi |-> 100, raw |-> raw] :
        cc \in {<<>>, <<1>>, <<1, 3>>},
        raw \in {[loc |-> 0, comments |-> 0, blank |-> 0], [loc |-> 2, comments |-> 1, blank |-> 1]}}

Candidate(i) ==
    [name |-> i, type |-> "function", description |-> "def",
     signatures |-> IF i % 2 = 1 THEN <<"f()">> ELSE <<>>]

CompletionEnvs ==
    {[fault |-> Some("jedi failed")]} \cup
    {[fault |-> None, completions |-> [i \in 1..n |-> Candidate(i)]] :
        n \in {0, 1, MaxCompletions, MaxCompletions + 1}}
    \cup {[fault |-> None, completions |-> <<Candidate(2), Candidate(1)>>]}

M_error == <<"/tmp/t.py", ":", "1", ":", "5", ":", " ", "error", ":", " ", "Incompatible types">>
M_note == <<"/tmp/t.py", ":", "2", ":", "1", ":", " ", "note", ":", " ", "Revealed type">>
M_nocolumn == <<"/tmp/t.py", ":", "3", ":", " ", "error", ":", " ", "Name is not defined">>
M_noline == <<"/tmp/t.py", ":", " ", "error", ":", " ", "Source file found twice">>

MypyEnvs ==
    {[fault |-> Some("mypy failed")]} \cup
    {[fault |-> None, stdout |-> Stream(ls), exit_code |-> e] :
        ls \in SeqsUpTo({M_error, M_note, M_nocolumn, M_noline}, MaxOut), e \in {0, 1, 2}}

Y_header == <<"************* Module t">>
Y_convention == <<"/tmp/t.py", ":", "10", ":", "0", ":", " ", "C0116", ":", " ",
                  "Missing function or method docstring", " ", "(missing-function-docstring)">>
Y_error == <<"/tmp/t.py", ":", "1", ":", "0", ":", " ", "E0001", ":", " ", "Parsing failed">>
Y_warning == <<"/tmp/t.py", ":", "1", ":", "0", ":", " ", "W0611", ":", " ", "Unused import os",
               " ", "(unused-import)">>
Y_fatal == <<"/tmp/t.py", ":", "1", ":", "0", ":", " ", "F0001", ":", " ", "No module named t">>

\* a SystemExit out of PylintRun is swallowed, so only other exceptions count
Y_refactor == <<"/tmp/t.py", ":", "2", ":", "0", ":", " ", "R0201", ":", " ",
                "Method could be a function">>
Y_info == <<"/tmp/t.py", ":", "1", ":", "0", ":", " ", "I0011", ":", " ", "Locally disabling x">>

PylintEnvs ==
    {[fault |-> Some("pylint failed")]} \cup
    {[fault |-> None, output |-> Stream(ls)] :
        ls \in SeqsUpTo({Y_header, Y_convention, Y_error, Y_warning, Y_fatal}, MaxOut)
                 \cup {<<Y_refactor, Y_info>>, <<Y_info, Y_fatal>>}}

VultureEnvs ==
    {[fault |-> Some("vulture failed")]} \cup
    {[fault |-> None, items |-> items] :
        items \in SeqsUpTo({[name |-> "f", typ |-> "function", first_lineno |-> 1, confidence |-> 60],
                            [name |-> "os", typ |-> "import", first_lineno |-> 2, confidence |-> 90]},
                           MaxOut)}

MaxRequests == 1

\* the names mkstemp may draw; it takes one no existing file has, and as the
\* names are interchangeable the first free one stands for any of them
TempNames == [i \in 1..(MaxRequests + 2) |-> <<"/tmp/tmp", Str(i), ".py">>]
\* a variant that hands every invocation the same name
FixedName == TempNames[1]

FreshName == TempNames[Least({i \in DOMAIN TempNames : TempNames[i] \notin files})]


---------------------------------------------------------------------------
\* The other PythonTools methods

tools_get_symbols(code, file_name, filter) ==
    Called("get_symbols", <<code, OrStr(file_name, "temp.py"), FilterKind(filter)>>,
           get_symbols(code, OrStr(file_name, "temp.py"), FilterKind(filter)))

tools_format_code(code, env) == Called("format_code", <<code>>, format_code(code, env))

tools_calculate_metrics(code, file_name, env) ==
    Called("calculate_metrics", <<code, OrStr(file_name, "temp.py")>>,
           calculate_metrics(code, OrStr(file_name, "temp.py"), env))

tools_get_completions(code, line, column, env) ==
    Called("get_completions", <<code, line, column>>, get_completions(code, line, column, env))

tools_format_with_autopep8(code, max_line_length, env) ==
    Called("format_with_autopep8", <<code, OrInt(max_line_length, 79)>>,
           format_with_autopep8(code, OrInt(max_line_length, 79), env))

---------------------------------------------------------------------------
\* The transports

\* json.dumps(result, indent=2)
Json(value) == <<"json", value>>

\* what the caller of the transport gets for a dispatch that returned or raised:
\* call_tool catches every Exception and answers with a JSON error object; a
\* Resource.post has no handler, so the exception leaves it
Respond(transport, out) ==
    IF transport = "tool"
    THEN [type |-> "text",
          text |-> IF out.raised THEN Json([success |-> FALSE, error |-> out.exc])
                   ELSE Json(out.value)]
    ELSE IF out.raised THEN [fault |-> out.exc]
    ELSE [status |-> 200, json |-> out.value]

\* arguments["code"] on a request without the field: str(KeyError('code'))
MissingField(key) == Raise("'" \o key \o "'")

Request(transport, name, arguments) ==
    [transport |-> transport, name |-> name, arguments |-> arguments]

---------------------------------------------------------------------------
\* Actions

Init ==
    /\ current_version \in RuntimeVersions
    /\ has \in {[c \in Caps |-> TRUE], [c \in Caps |-> FALSE]}
    /\ FacadeIdle
    /\ fn_pc = "off" /\ fn_code = <<>> /\ fn_target = <<3, 0>> /\ fn_out = None

\* a request arrives while fewer than MaxRequests answers have been delivered
CanCall(p) ==
    /\ pc[p] = "idle"
    /\ served < MaxRequests

\* the requests and analyzer answers tried by the invocations that run side by
\* side: one source with every required field and no optional one, and of the
\* analyzer's answers one that is a fault and one that is not
ArgsOf(p, S) ==
    IF p \in Workers
    THEN {a \in S : /\ DOMAIN a \in {{"code"}, {"code", "line", "column"}}
                    /\ a["code"] = C_typed}
    ELSE S

EnvsOf(p, S) ==
    IF p \in Workers
    THEN {CHOOSE x \in S : x.fault = None}
         \cup {x \in {CHOOSE y \in S : y.fault # None \/ \A z \in S : z.fault = None} :
                  x.fault # None}
    ELSE S

\* the handler ran to its end in one step: the transport has its answer
Finish(p, r, called, env, out) ==
    /\ req' = [req EXCEPT ![p] = Some(r)]
    /\ ret' = [ret EXCEPT ![p] = called]
    /\ answer' = [answer EXCEPT ![p] = env]
    /\ result' = [result EXCEPT ![p] = Some(Respond(r.transport, out))]
    /\ pc' = [pc EXCEPT ![p] = "done"]
    /\ UNCHANGED <<current_version, has, files, created, temp_path, pending, served, fnVars>>

\* the request lacks a required field: no facade operation is called
Refuse(p, r, key) == Finish(p, r, None, None, MissingField(key))

Dispatch(p, r, called, env) == Finish(p, r, Some(called), env, called.out)

AnalyzeCode(p) ==
    /\ CanCall(p)
    /\ \E t \in Transports, a \in ArgsOf(p, AnalyzeArgs) :
         LET r == Request(t, "analyze_code", a)
         IN  IF "code" \notin DOMAIN a THEN Refuse(p, r, "code")
             ELSE \E env \in EnvsOf(p, IF has["pyflakes"] /\ ast_parse(a["code"]).ok
                              THEN PyflakesEnvs ELSE {QuietEnv}) :
                    Dispatch(p, r, tools_analyze_code(a["code"], Get(a, "fileName"),
                                                      GetOr(a, "pythonVersion", <<"auto">>), env),
                             IF has["pyflakes"] /\ ast_parse(a["code"]).ok THEN Some(env) ELSE None)

GetSymbols(p) ==
    /\ CanCall(p)
    /\ \E t \in Transports, a \in ArgsOf(p, SymbolArgs) :
         LET r == Request(t, "get_symbols", a)
         IN  IF "code" \notin DOMAIN a THEN Refuse(p, r, "code")
             ELSE Dispatch(p, r, tools_get_symbols(a["code"], Get(a, "fileName"), Get(a, "filter")), None)

FormatCode(p) ==
    /\ CanCall(p)
    /\ \E t \in Transports, a \in ArgsOf(p, CodeArgs) :
         LET r == Request(t, "format_code", a)
         IN  IF "code" \notin DOMAIN a THEN Refuse(p, r, "code")
             ELSE \E env \in EnvsOf(p, IF has["black"] THEN Faults("cannot format") ELSE {[fault |-> None]}) :
                    Dispatch(p, r, tools_format_code(a["code"], env), Some(env))

CalculateMetrics(p) ==
    /\ CanCall(p)
    /\ \E t \in Transports, a \in ArgsOf(p, FileArgs) :
         LET r == Request(t, "calculate_metrics", a)
         IN  IF "code" \notin DOMAIN a THEN Refuse(p, r, "code")
             ELSE \E env \in EnvsOf(p, IF has["radon"] /\ ast_parse(a["code"]).ok
                              THEN MetricsEnvs ELSE {[fault |-> None]}) :
                    Dispatch(p, r, tools_calculate_metrics(a["code"], Get(a, "fileName"), env), Some(env))

GetCompletions(p) ==
    /\ CanCall(p)
    /\ \E t \in Transports, a \in ArgsOf(p, CompletionArgs) :
         LET r == Request(t, "get_completions", a)
         IN  IF "code" \notin DOMAIN a THEN Refuse(p, r, "code")
             ELSE IF "line" \notin DOMAIN a THEN Refuse(p, r, "line")
             ELSE IF "column" \notin DOMAIN a THEN Refuse(p, r, "column")
             ELSE \E env \in EnvsOf(p, IF has["jedi"] THEN CompletionEnvs ELSE {[fault |-> None]}) :
                    Dispatch(p, r, tools_get_completions(a["code"], a["line"], a["column"], env), Some(env))

FormatWithAutopep8(p) ==
    /\ CanCall(p)
    /\ \E t \in Transports, a \in ArgsOf(p, Autopep8Args) :
         LET r == Request(t, "format_with_autopep8", a)
         IN  IF "code" \notin DOMAIN a THEN Refuse(p, r, "code")
             ELSE \E env \in EnvsOf(p, IF has["autopep8"] THEN Faults("cannot fix") ELSE {[fault |-> None]}) :
                    Dispatch(p, r, tools_format_with_autopep8(a["code"], Get(a, "maxLineLength"), env), Some(env))

\* the else branch of call_tool; the HTTP server has no route for such a name
ToolNames ==
    {"analyze_code", "get_symbols", "format_code", "calculate_metrics", "type_check",
     "detect_dead_code", "comprehensive_lint", "get_completions", "format_with_autopep8"}

\* names that are none of the nine tools
UnknownNames == {"no_such_tool", "analyse_code"}

\* a variant whose error text leaves the name out
unknown_tool_unnamed(name) == [success |-> FALSE, error |-> "Unknown tool"]

\* result = {"success": False, "error": f"Unknown tool: {name}"}
unknown_tool(name) == [success |-> FALSE, error |-> "Unknown tool: " \o name]

UnknownTool(p) ==
    /\ CanCall(p)
    /\ \E name \in UnknownNames, a \in ArgsOf(p, CodeArgs) :
         Finish(p, Request("tool", name, a), None, None, Return(unknown_tool(name)))

\* what the outer  except Exception as e  of a file-based operation returns
Failure(e) == [success |-> FALSE, error |-> e]

\* type_check, detect_dead_code and comprehensive_lint up to the point where
\* the temporary file is opened
StartFileOp(p, name) ==
    /\ CanCall(p)
    /\ \E t \in Transports, a \in ArgsOf(p, FileArgs) :
         LET r == Request(t, name, a)
             args == <<a["code"], OrStr(Get(a, "fileName"), "temp.py")>>
         IN  IF "code" \notin DOMAIN a THEN Refuse(p, r, "code")
             ELSE IF ~has[CapOf(name)]
             THEN Dispatch(p, r, Called(name, args,
                                        Return(Failure(CapOf(name) \o " is not installed"))), None)
             ELSE /\ req' = [req EXCEPT ![p] = Some(r)]
                  /\ ret' = [ret EXCEPT ![p] = Some(Called(name, args, None))]
                  /\ pc' = [pc EXCEPT ![p] = "write"]
                  /\ UNCHANGED <<current_version, has, files, created, temp_path, pending,
                                 answer, result, served, fnVars>>

TypeCheck(p) == StartFileOp(p, "type_check")
DetectDeadCode(p) == StartFileOp(p, "detect_dead_code")
ComprehensiveLint(p) == StartFileOp(p, "comprehensive_lint")

\* the operation is over: the facade's value goes back through the transport
Returned(p, out) ==
    /\ ret' = [ret EXCEPT ![p] = Some([ret[p][1] EXCEPT !.out = out])]
    /\ result' = [result EXCEPT ![p] = Some(Respond(req[p][1].transport, out))]
    /\ pc' = [pc EXCEPT ![p] = "done"]

\* with tempfile.NamedTemporaryFile(mode='w', suffix='.py', delete=False) as f:
\*     f.write(code); temp_path = f.name
\* The file is created under a name no existing file has.  When f.write raises
\* (a lone surrogate cannot be encoded; the disk is full) the with block closes
\* the file, keeps it, and the exception reaches the outer except.
WriteTemp(p) ==
    /\ pc[p] = "write"
    /\ \E fault \in (IF Contains(ret[p][1].args[1], <<"<U+DC80>">>) THEN {TRUE} ELSE BOOLEAN) :
         /\ files' = files \cup {FreshName}
         /\ created' = [created EXCEPT ![p] = Some(FreshName)]
         /\ IF fault
            THEN /\ Returned(p, Return(Failure("write failed")))
                 /\ UNCHANGED <<temp_path, pending>>
            ELSE /\ temp_path' = [temp_path EXCEPT ![p] = Some(FreshName)]
                 /\ pc' = [pc EXCEPT ![p] = "run"]
                 /\ UNCHANGED <<ret, result, pending>>
    /\ UNCHANGED <<current_version, has, req, answer, served, fnVars>>

\* the inner try block: the analyzer runs on temp_path and its output is parsed
Ran(p, env, out) ==
    /\ pending' = [pending EXCEPT ![p] = Some(out)]
    /\ answer' = [answer EXCEPT ![p] = Some(env)]
    /\ pc' = [pc EXCEPT ![p] = "finally"]
    /\ UNCHANGED <<current_version, has, files, req, created, temp_path, ret, result,
                   served, fnVars>>

RunMypy(p) ==
    /\ pc[p] = "run" /\ req[p][1].name = "type_check"
    /\ \E env \in EnvsOf(p, MypyEnvs) :
         Ran(p, env, IF env.fault # None THEN Raise(env.fault[1])
                     ELSE Return(type_check_result(env.stdout, env.exit_code, ret[p][1].args[2])))

RunVulture(p) ==
    /\ pc[p] = "run" /\ req[p][1].name = "detect_dead_code"
    /\ \E env \in EnvsOf(p, VultureEnvs) :
         Ran(p, env, IF env.fault # None THEN Raise(env.fault[1])
                     ELSE Return(dead_code_result(env.items)))

RunPylint(p) ==
    /\ pc[p] = "run" /\ req[p][1].name = "comprehensive_lint"
    /\ \E env \in EnvsOf(p, PylintEnvs) :
         Ran(p, env, IF env.fault # None THEN Raise(env.fault[1])
                     ELSE Return(lint_result(env.output, ret[p][1].args[2])))

\* finally: if os.path.exists(temp_path): os.unlink(temp_path)
\* then the inner return, or the outer except for what the try block raised
Cleanup(p) ==
    /\ pc[p] = "finally"
    /\ files' = files \ {temp_path[p][1]}
    /\ pending' = [pending EXCEPT ![p] = None]
    /\ Returned(p, IF pending[p][1].raised THEN Return(Failure(pending[p][1].exc))
                   ELSE pending[p][1])
    /\ UNCHANGED <<current_version, has, req, created, temp_path, answer, served, fnVars>>

\* the caller has its answer; the invocation's locals are gone
Deliver(p) ==
    /\ pc[p] = "done"
    /\ pc' = [pc EXCEPT ![p] = "idle"]
    /\ req' = [req EXCEPT ![p] = None]
    /\ ret' = [ret EXCEPT ![p] = None]
    /\ answer' = [answer EXCEPT ![p] = None]
    /\ result' = [result EXCEPT ![p] = None]
    /\ created' = [created EXCEPT ![p] = None]
    /\ temp_path' = [temp_path EXCEPT ![p] = None]
    /\ served' = served + 1
    /\ UNCHANGED <<current_version, has, files, pending, fnVars>>

Step(p) ==
    \/ AnalyzeCode(p) \/ GetSymbols(p) \/ FormatCode(p) \/ CalculateMetrics(p)
    \/ GetCompletions(p) \/ FormatWithAutopep8(p) \/ UnknownTool(p)
    \/ TypeCheck(p) \/ DetectDeadCode(p) \/ ComprehensiveLint(p)
    \/ WriteTemp(p) \/ RunMypy(p) \/ RunVulture(p) \/ RunPylint(p) \/ Cleanup(p)
    \/ Deliver(p)

\* requests served one at a time
Next == Step(1)

Spec == Init /\ [][Next]_vars

\* requests served side by side: the steps of two invocations interleave
NextWorkers == \E p \in Workers : Step(p)

SpecWorkers == Init /\ [][NextWorkers]_vars

---------------------------------------------------------------------------
\* C3

HeadOf(code) == Take(Split(code, "\n"), HeadLines)

IsShebangLine(line) ==
    StartsWith(line, <<"#!">>) /\ Contains(line, <<"python">>) /\ ShebangVersion(line) # None

IsRequiresLine(line) ==
    /\ Contains(Lower(line), <<"requires">>) /\ Contains(Lower(line), <<"python">>)
    /\ RequiresVersion(line) # None

ShebangAt(code) == {i \in 1..Len(HeadOf(code)) : IsShebangLine(HeadOf(code)[i])}
RequiresAt(code) == {i \in 1..Len(HeadOf(code)) : IsRequiresLine(HeadOf(code)[i])}

\* C3: when the first 10 lines hold a shebang line with a version and a
\* 'requires python' comment with a version, detect_python_version returns the
\* shebang's version whatever the order of the two lines; and when either is
\* present the version returned is one of theirs, never one inferred from syntax.
C3_ShebangWins ==
    fn_pc = "detect_python_version" =>
        /\ (ShebangAt(fn_code) # {} /\ RequiresAt(fn_code) # {}) =>
               fn_out = ShebangVersion(HeadOf(fn_code)[Least(ShebangAt(fn_code))])[1]
        /\ (ShebangAt(fn_code) # {} \/ RequiresAt(fn_code) # {}) =>
               \/ \E i \in ShebangAt(fn_code) : fn_out = ShebangVersion(HeadOf(fn_code)[i])[1]
               \/ \E i \in RequiresAt(fn_code) : fn_out = RequiresVersion(HeadOf(fn_code)[i])[1]

---------------------------------------------------------------------------
\* C10

Features ==
    {[code |-> "W9010", min |-> <<3, 10>>], [code |-> "W9008", min |-> <<3, 8>>],
     [code |-> "W9006", min |-> <<3, 6>>]}

Detected(F, code) ==
    CASE F.code = "W9010" -> MatchStmt(code)
      [] F.code = "W9008" -> Walrus(code)
      [] F.code = "W9006" -> FString(code)

Emitted(out) == {out[i].code : i \in 1..Len(out)}

\* C10: the compatibility checker emits the warning of feature F (W9010 min
\* 3.10, W9008 min 3.8, W9006 min 3.6) exactly when the target version is
\* strictly below F's minimum and the source matches F's pattern, each warning
\* once, with severity 'warning' and neither line nor column.
C10_CompatIff ==
    fn_pc = "check_feature_compatibility" =>
        /\ \A F \in Features :
               (F.code \in Emitted(fn_out)) <=> (VLess(fn_target, F.min) /\ Detected(F, fn_code))
        /\ Emitted(fn_out) \subseteq {F.code : F \in Features}
        /\ Len(fn_out) = Cardinality(Emitted(fn_out))
        /\ \A i \in 1..Len(fn_out) :
               /\ fn_out[i].severity = "warning"
               /\ fn_out[i].category = "CompatibilityWarning"
               /\ fn_out[i].line = None /\ fn_out[i].column = None

\* all three warnings at once, for a target below every minimum
C10_Witness ==
    /\ fn_pc = "check_feature_compatibility"
    /\ Emitted(fn_out) = {"W9010", "W9008", "W9006"}

\* one warning alone while another feature is present but allowed by the target
C10_WitnessIndependent ==
    /\ fn_pc = "check_feature_compatibility"
    /\ Emitted(fn_out) = {"W9010"} /\ Walrus(fn_code) /\ FString(fn_code)

---------------------------------------------------------------------------
\* Claims about the facade and the transports

Done(p) == pc[p] = "done"

\* the facade operation invocation p ran, and its outcome
CalledOp(p, ops) == Done(p) /\ ret[p] # None /\ ret[p][1].op \in ops
Out(p) == ret[p][1].out

\* the external analyzer of invocation p, or the parsing of its output, raised
AnalyzerFaulted(p) == answer[p] # None /\ answer[p][1].fault # None

PyflakesPart(diagnostics) == SelectSeq(diagnostics, LAMBDA d : d.category = "PyflakesWarning")
CompatPart(diagnostics) == SelectSeq(diagnostics, LAMBDA d : d.category = "CompatibilityWarning")

\* C1: when type_check, detect_dead_code or comprehensive_lint is over, the
\* temporary file it created no longer exists, whichever way it ended (normal
\* return, analyzer exception, exception while writing the source).
C1_TempFileRemoved ==
    \A p \in Procs : (Done(p) /\ created[p] # None) => created[p][1] \notin files

\* C2: in every result of analyze_code, type_check and comprehensive_lint that
\* carries diagnostics, success is true exactly when no diagnostic has
\* severity 'error' (error_count = 0).
C2_SuccessIffNoErrors ==
    \A p \in Procs :
        (/\ CalledOp(p, {"analyze_code", "type_check", "comprehensive_lint"})
         /\ ~Out(p).raised /\ "diagnostics" \in DOMAIN Out(p).value) =>
            /\ Out(p).value.error_count = CountSeverity(Out(p).value.diagnostics, "error")
            /\ Out(p).value.success = (Out(p).value.error_count = 0)

C4_WitnessFileOp ==
    \E p \in Procs :
        /\ CalledOp(p, FileOps) /\ AnalyzerFaulted(p)
        /\ created[p] # None /\ temp_path[p] # None

\* C5: no facade operation lets an exception escape: every call of the nine
\* operations returns a result dictionary, also analyze_code and get_symbols
\* when the parser raises something other than SyntaxError.
C5_NoExceptionEscapes ==
    \A p \in Procs : (Done(p) /\ ret[p] # None) => ~Out(p).raised

\* the optional library each operation needs
CapabilityOf(op) ==
    CASE op = "analyze_code" -> "pyflakes"
      [] op = "format_code" -> "black"
      [] op = "calculate_metrics" -> "radon"
      [] op = "get_completions" -> "jedi"
      [] op = "format_with_autopep8" -> "autopep8"
      [] op \in FileOps -> CapOf(op)

\* C6: an operation whose optional library is absent returns success false
\* with an error naming the library ('<library> is not installed'); this
\* includes analyze_code when pyflakes is absent.  (That no operation raises
\* is C5's subject; here the results returned are examined.)
C6_MissingCapabilityReported ==
    \A p \in Procs :
        (/\ CalledOp(p, {"analyze_code", "format_code", "calculate_metrics", "get_completions",
                         "format_with_autopep8"} \cup FileOps)
         /\ ~has[CapabilityOf(ret[p][1].op)] /\ ~Out(p).raised) =>
            /\ Out(p).value.success = FALSE
            /\ "error" \in DOMAIN Out(p).value
            /\ Out(p).value.error = CapabilityOf(ret[p][1].op) \o " is not installed"

\* C6 (as the code has it): format_code, calculate_metrics, get_completions,
\* format_with_autopep8, type_check, detect_dead_code and comprehensive_lint
\* return success false with the error '<library> is not installed' when their
\* library is absent.  analyze_code does not report an absent pyflakes: what
\* it returns is its ordinary result, without 'error' and without pyflakes
\* diagnostics, success being true unless the source has a syntax error.
C6_MissingCapabilityOutcome ==
    \A p \in Procs :
        (/\ CalledOp(p, {"analyze_code", "format_code", "calculate_metrics", "get_completions",
                         "format_with_autopep8"} \cup FileOps)
         /\ ~has[CapabilityOf(ret[p][1].op)]) =>
            IF ret[p][1].op = "analyze_code"
            THEN ~Out(p).raised =>
                     /\ "error" \notin DOMAIN Out(p).value
                     /\ PyflakesPart(Out(p).value.diagnostics) = <<>>
                     /\ Out(p).value.success = ast_parse(ret[p][1].args[1]).ok
            ELSE /\ ~Out(p).raised
                 /\ Out(p).value.success = FALSE
                 /\ "error" \in DOMAIN Out(p).value
                 /\ Out(p).value.error = CapabilityOf(ret[p][1].op) \o " is not installed"

\* pyflakes is absent and analyze_code reports success, with the compatibility
\* warnings as its only diagnostics
C6_Witness ==
    \E p \in Procs :
        /\ CalledOp(p, {"analyze_code"}) /\ ~has["pyflakes"] /\ ~Out(p).raised
        /\ Out(p).value.success = TRUE
        /\ Out(p).value.diagnostics # <<>>

\* the body of a response
Body(r) == IF "text" \in DOMAIN r THEN r.text[2] ELSE r.json

\* C7: both transports wrap the dispatch: whatever goes wrong while a request
\* is served (a missing 'code' field, an exception out of the facade), the
\* response is a JSON object with success false and an error text; no fault
\* leaves the handler.
C7_TransportWraps ==
    \A p \in Procs :
        Done(p) =>
            /\ "fault" \notin DOMAIN result[p][1]
            /\ (ret[p] = None \/ Out(p).raised) =>
                   /\ Body(result[p][1]).success = FALSE
                   /\ "error" \in DOMAIN Body(result[p][1])

\* C8: a pyflakes diagnostic has severity 'error' exactly when its message
\* contains 'undefined' (case-insensitively), and 'warning' otherwise.
C8_UndefinedIsError ==
    \A p \in Procs :
        (CalledOp(p, {"analyze_code"}) /\ ~Out(p).raised) =>
            \A i \in 1..Len(Out(p).value.diagnostics) :
                LET d == Out(p).value.diagnostics[i]
                IN  d.category = "PyflakesWarning" =>
                        d.severity = IF Contains(Lower(d.message), <<"undefined">>)
                                     THEN "error" ELSE "warning"

\* C8 (as the code has it): a pyflakes diagnostic has severity 'error' exactly
\* when its message contains 'undefined name', or contains both 'imported but
\* unused' and 'undefined'; every other one, a message that merely mentions
\* 'undefined' included, has severity 'warning'.
C8_SeverityRule ==
    \A p \in Procs :
        (CalledOp(p, {"analyze_code"}) /\ ~Out(p).raised) =>
            \A i \in 1..Len(Out(p).value.diagnostics) :
                LET d == Out(p).value.diagnostics[i]
                    m == Lower(d.message)
                IN  d.category = "PyflakesWarning" =>
                        d.severity =
                            IF \/ Contains(m, <<"undefined", " ", "name">>)
                               \/ /\ Contains(m, <<"imported", " ", "but", " ", "unused">>)
                                  /\ Contains(m, <<"undefined">>)
                            THEN "error" ELSE "warning"

\* "'x' may be undefined, or defined from star imports" comes out a warning,
\* next to an 'undefined name' that comes out an error
C8_Witness ==
    \E p \in Procs :
        /\ CalledOp(p, {"analyze_code"}) /\ ~Out(p).raised
        /\ \E i, j \in 1..Len(Out(p).value.diagnostics) :
             LET d == Out(p).value.diagnostics[i]
                 e == Out(p).value.diagnostics[j]
             IN  /\ d.category = "PyflakesWarning" /\ e.category = "PyflakesWarning"
                 /\ Contains(Lower(d.message), <<"undefined">>) /\ d.severity = "warning"
                 /\ e.severity = "error"

\* the request asks analyze_code about a source containing 'match x:' for the
\* given target version
AsksMatch(p, python_version) ==
    /\ Done(p) /\ req[p][1].name = "analyze_code"
    /\ "code" \in DOMAIN req[p][1].arguments
    /\ Contains(req[p][1].arguments["code"], L_match)
    /\ Get(req[p][1].arguments, "pythonVersion") = Some(python_version)

HasCompatWarning(p, codes) ==
    \E i \in 1..Len(Out(p).value.diagnostics) :
        /\ Out(p).value.diagnostics[i].category = "CompatibilityWarning"
        /\ Out(p).value.diagnostics[i].code \in codes

\* C9: analyze_code with pythonVersion "3.7" on any source containing
\* 'match x:' returns a CompatibilityWarning diagnostic with code W9010; with
\* pythonVersion "3.11" it returns no CompatibilityWarning diagnostic.
C9_MatchWarned ==
    \A p \in Procs :
        /\ AsksMatch(p, <<"3", ".", "7">>) =>
               ~Out(p).raised /\ HasCompatWarning(p, {"W9010"})
        /\ AsksMatch(p, <<"3", ".", "11">>) =>
               ~Out(p).raised /\ ~HasCompatWarning(p, {"W9010", "W9008", "W9006"})

\* C9 (as the code has it): with pythonVersion "3.7", a source containing
\* 'match x:' that the parser accepts gets the W9010 CompatibilityWarning; one
\* the parser rejects with a syntax error gets the SyntaxError diagnostic
\* alone.  With pythonVersion "3.11" no result carries a CompatibilityWarning.
C9_MatchWarnedWhenParsed ==
    \A p \in Procs :
        /\ AsksMatch(p, <<"3", ".", "7">>) =>
               LET parsed == ast_parse(req[p][1].arguments["code"])
               IN  /\ parsed.ok => ~Out(p).raised /\ HasCompatWarning(p, {"W9010"})
                   /\ (~parsed.ok /\ parsed.syntax) =>
                          /\ ~Out(p).raised
                          /\ Len(Out(p).value.diagnostics) = 1
                          /\ Out(p).value.diagnostics[1].category = "SyntaxError"
        /\ (AsksMatch(p, <<"3", ".", "11">>) /\ ~Out(p).raised) =>
               ~HasCompatWarning(p, {"W9010", "W9008", "W9006"})

\* a complete match statement, parsed, asked about for 3.7: W9010 is there
C9_Witness ==
    \E p \in Procs :
        /\ AsksMatch(p, <<"3", ".", "7">>)
        /\ ast_parse(req[p][1].arguments["code"]).ok
        /\ HasCompatWarning(p, {"W9010"})

\* 'match x:' alone, asked about for 3.7: only the syntax error is reported
C9_WitnessSyntaxError ==
    \E p \in Procs :
        /\ AsksMatch(p, <<"3", ".", "7">>)
        /\ req[p][1].arguments["code"] = L_match
        /\ ~Out(p).raised /\ Out(p).value.diagnostics[1].category = "SyntaxError"

---------------------------------------------------------------------------
\* Syntax errors

\* the arguments the facade operation of invocation p was called with
Args(p) == ret[p][1].args

\* the parser rejects the text with a SyntaxError
SyntaxFails(code) == ~ast_parse(code).ok /\ ast_parse(code).syntax

\* the version analyze_code works with: the one asked for, else the detected one
VersionUsed(p) == IF Args(p)[3] = None THEN detect_python_version(Args(p)[1]) ELSE Args(p)[3][1]

\* C11: when the source has a syntax error, analyze_code returns success false
\* with exactly one diagnostic, of category SyntaxError and severity error,
\* error_count 1 and warning_count 0; no compatibility warning and no finding of
\* the static-error detector is reported, whatever features the text contains.
C11_SyntaxErrorIsTerminal ==
    \A p \in Procs :
        CalledOp(p, {"analyze_code"}) /\ SyntaxFails(Args(p)[1])
            => /\ ~Out(p).raised
               /\ Out(p).value.success = FALSE
               /\ Len(Out(p).value.diagnostics) = 1
               /\ Out(p).value.diagnostics[1].category = "SyntaxError"
               /\ Out(p).value.diagnostics[1].severity = "error"
               /\ Out(p).value.error_count = 1
               /\ Out(p).value.warning_count = 0
               /\ CompatPart(Out(p).value.diagnostics) = <<>>
               /\ PyflakesPart(Out(p).value.diagnostics) = <<>>

\* a text with a syntax error whose features the compatibility check would warn
\* about for the version in use, analysed with the static-error detector present
C11_Witness ==
    \E p \in Procs :
        /\ CalledOp(p, {"analyze_code"}) /\ SyntaxFails(Args(p)[1])
        /\ has["pyflakes"]
        /\ check_feature_compatibility(Args(p)[1], VersionUsed(p)) # <<>>
        /\ Out(p).value.error_count = 1

---------------------------------------------------------------------------
\* Symbols

\* the filter field of the request of invocation p, None when it has none
RequestedFilter(p) == Get(req[p][1].arguments, "filter")

OfKind(symbols, kind) == SelectSeq(symbols, LAMBDA s : s.kind = kind)

\* C12: get_symbols on a source with a syntax error returns success false, an
\* empty symbol list and count 0, whatever the filter; nothing is extracted from
\* the part of the text that is valid.
C12_NoSymbolsOnSyntaxError ==
    \A p \in Procs :
        CalledOp(p, {"get_symbols"}) /\ SyntaxFails(Args(p)[1])
            => /\ ~Out(p).raised
               /\ Out(p).value.success = FALSE
               /\ Out(p).value.symbols = <<>>
               /\ Out(p).value.count = 0

\* a filtered request on a text whose lines above the syntax error define a
\* symbol of the kind asked for
C12_Witness ==
    \E p \in Procs :
        /\ CalledOp(p, {"get_symbols"})
        /\ Args(p)[1] = C_broken /\ SyntaxFails(C_broken)
        /\ RequestedFilter(p) = Some("variable")
        /\ OfKind(get_symbols(C_xy, "a.py", None).value.symbols, "variable") # <<>>
        /\ Out(p).value.count = 0

\* the statements of a text as written: every line, and the simple statement
\* that follows the colon of a one-line compound statement
Keywords == {"class", "def", "async", "if", "match", "case", "pass", "print"}
StatementsOf(code) ==
    LET lines == Split(code, "\n")
        inline(l) == Strip(SubSeq(LStrip(l), IndexOf(LStrip(l), ":") + 1, Len(LStrip(l))))
    IN  {[text |-> LStrip(lines[i]), line |-> i] : i \in 1..Len(lines)}
        \cup {[text |-> inline(lines[i]), line |-> i] :
                 i \in {j \in 1..Len(lines) : /\ LStrip(lines[j]) # <<>>
                                              /\ LStrip(lines[j])[1] \in Keywords}}

\* name ':' annotation ..., the name a single identifier
AnnotatedSimpleName(s) == Len(s) >= 2 /\ IsWord(s[1]) /\ s[1] \notin Keywords /\ s[2] = ":"

\* C13: an assignment yields a 'variable' symbol exactly when it is an annotated
\* assignment whose target is a simple name; unannotated assignments,
\* destructuring assignments and annotated attribute or subscript targets yield
\* none.  'x: int = 1' followed by 'y = 2' gives exactly one variable symbol, x.
C13_VariableIffAnnotatedName ==
    \A p \in Procs :
        /\ CalledOp(p, {"get_symbols"}) /\ ~Out(p).raised /\ Out(p).value.success
        /\ Args(p)[3] \in {None, Some("variable")}
        => LET variables == OfKind(Out(p).value.symbols, "variable")
               annotated == {st \in StatementsOf(Args(p)[1]) : AnnotatedSimpleName(st.text)}
           IN  /\ {<<variables[k].name, variables[k].line>> : k \in 1..Len(variables)}
                     = {<<st.text[1], st.line>> : st \in annotated}
               /\ Len(variables) = Cardinality(annotated)
               /\ Args(p)[1] = C_xy => Len(variables) = 1 /\ variables[1].name = "x"

\* the unannotated, destructuring, attribute and subscript assignments next to
\* one annotated name: one variable symbol, the annotated name
C13_Witness ==
    \E p \in Procs :
        /\ CalledOp(p, {"get_symbols"}) /\ Args(p)[1] = C_targets
        /\ Out(p).value.success /\ Out(p).value.count = 1
        /\ Out(p).value.symbols[1].name = "v" /\ Out(p).value.symbols[1].line = 4

\* 'x: int = 1' then 'y = 2': x alone
C13_WitnessExample ==
    \E p \in Procs :
        /\ CalledOp(p, {"get_symbols"}) /\ Args(p)[1] = C_xy
        /\ Out(p).value.symbols = <<SymbolInfo("x", "variable", 1, 0, Some(<<"int">>), FALSE)>>

\* C14: get_symbols with filter class, function or variable returns exactly the
\* symbols of that kind of the unfiltered result, in the same relative order;
\* with the filter unset or 'all' it returns every symbol; count is the length
\* of the symbol list.
C14_FilterSelects ==
    \A p \in Procs :
        CalledOp(p, {"get_symbols"}) /\ ~Out(p).raised
            => LET unfiltered == get_symbols(Args(p)[1], Args(p)[2], None).value.symbols
                   f == RequestedFilter(p)
               IN  /\ Out(p).value.count = Len(Out(p).value.symbols)
                   /\ f \in {None, Some("all")} => Out(p).value.symbols = unfiltered
                   /\ f \in {Some("class"), Some("function"), Some("variable")}
                         => Out(p).value.symbols = OfKind(unfiltered, f[1])

\* the variables of a text with a class, a function and two variables, one of
\* them nested: a proper part of the unfiltered list, in its order
C14_Witness ==
    \E p \in Procs :
        /\ CalledOp(p, {"get_symbols"}) /\ Args(p)[1] = C_nested
        /\ RequestedFilter(p) = Some("variable")
        /\ Len(get_symbols(C_nested, "a.py", None).value.symbols) = 4
        /\ Len(Out(p).value.symbols) = 2
        /\ Out(p).value.symbols[1].name = "x" /\ Out(p).value.symbols[2].name = "v"
        /\ Out(p).value.symbols[2].column = 9

\* the same text with the filter 'all': class, function, then the variables
C14_WitnessAll ==
    \E p \in Procs :
        /\ CalledOp(p, {"get_symbols"}) /\ Args(p)[1] = C_nested
        /\ RequestedFilter(p) = Some("all")
        /\ Out(p).value.count = 4
        /\ Out(p).value.symbols[1].kind = "class" /\ Out(p).value.symbols[2].kind = "function"

---------------------------------------------------------------------------
\* Lint severities

\* the diagnostics of the result of invocation p, none when it has no such list
DiagnosticsOf(p) ==
    IF ~Out(p).raised /\ "diagnostics" \in DOMAIN Out(p).value
    THEN Out(p).value.diagnostics ELSE <<>>

SeveritiesOf(p, codes) ==
    {DiagnosticsOf(p)[k].severity : k \in {j \in 1..Len(DiagnosticsOf(p)) : DiagnosticsOf(p)[j].code \in codes}}

\* C15: comprehensive_lint gives a message the severity 'error' exactly when
\* its code starts with E or F; codes that start with C, W, R or I give
\* 'warning' (C0116 is a warning, E0001 an error).
C15_SeverityFromPrefix ==
    \A p \in Procs :
        CalledOp(p, {"comprehensive_lint"})
            => /\ SeveritiesOf(p, {"E0001", "F0001"}) \subseteq {"error"}
               /\ SeveritiesOf(p, {"C0116", "W0611", "R0201", "I0011"}) \subseteq {"warning"}
               /\ \A k \in 1..Len(DiagnosticsOf(p)) :
                     DiagnosticsOf(p)[k].code \in PylintCodes

\* pylint printed an informational and a fatal message: a warning and an error
C15_Witness ==
    \E p \in Procs :
        /\ CalledOp(p, {"comprehensive_lint"})
        /\ answer[p] # None /\ answer[p][1].fault = None
        /\ answer[p][1].output = Stream(<<Y_info, Y_fatal>>)
        /\ SeveritiesOf(p, {"I0011"}) = {"warning"} /\ SeveritiesOf(p, {"F0001"}) = {"error"}

\* a refactoring and an informational message: two warnings, a passing result
C15_WitnessRefactor ==
    \E p \in Procs :
        /\ CalledOp(p, {"comprehensive_lint"})
        /\ SeveritiesOf(p, {"R0201"}) = {"warning"} /\ SeveritiesOf(p, {"I0011"}) = {"warning"}
        /\ Out(p).value.success /\ Out(p).value.warning_count = 2

\* the two codes the claim names
C15_WitnessExample ==
    \E p \in Procs :
        /\ CalledOp(p, {"comprehensive_lint"})
        /\ SeveritiesOf(p, {"C0116"}) = {"warning"} /\ SeveritiesOf(p, {"E0001"}) = {"error"}

---------------------------------------------------------------------------
\* Invocations side by side

\* invocation p holds a temporary file it has written and not yet removed
InFlight(p) == pc[p] \in {"run", "finally"}

\* the write of the temporary file of invocation p raised
WriteFaulted(p) == created[p] # None /\ temp_path[p] = None

\* what the file-based operation of invocation p returns when it runs alone,
\* given its request, the libraries present and the answer its analyzer gave
Alone(p) ==
    LET name == ret[p][1].op
        env == answer[p][1]
    IN  IF ~has[CapOf(name)] THEN Failure(CapOf(name) \o " is not installed")
        ELSE IF WriteFaulted(p) THEN Failure("write failed")
        ELSE IF env.fault # None THEN Failure(env.fault[1])
        ELSE CASE name = "type_check" -> type_check_result(env.stdout, env.exit_code, Args(p)[2])
               [] name = "detect_dead_code" -> dead_code_result(env.items)
               [] name = "comprehensive_lint" -> lint_result(env.output, Args(p)[2])

C16_Separate ==
    /\ \A p, q \in Procs :
          p # q /\ InFlight(p) /\ InFlight(q) => temp_path[p] # temp_path[q]
    /\ \A p \in Procs : InFlight(p) => temp_path[p][1] \in files
    /\ \A p \in Procs :
          CalledOp(p, FileOps) =>
              /\ Out(p) = Return(Alone(p))
              /\ result[p] = Some(Respond(req[p][1].transport, Out(p)))

C16_OwnFileOnly ==
    /\ \A f \in files \ files' :
          \E p \in Procs : pc[p] = "finally" /\ pc'[p] = "done" /\ temp_path[p] = Some(f)
    /\ has' = has
    /\ current_version' = current_version

C16_WitnessBoth == pc[2] = "finally" /\ pc[3] = "finally" /\ Cardinality(files) = 2

---------------------------------------------------------------------------
\* Detection from syntax

\* the syntax markers in the order they are tested, and the version of each
MarkerVersions == <<<<3, 10>>, <<3, 10>>, <<3, 8>>, <<3, 6>>, <<3, 5>>, <<3, 0>>, <<2, 7>>>>

Marker(k, code) ==
    CASE k = 1 -> MatchStmt(code)
      [] k = 2 -> Contains(code, <<" ", "|", " ">>) /\ ~Contains(code, <<"Union">>)
      [] k = 3 -> Contains(code, <<":=">>)
      [] k = 4 -> FString(code)
      [] k = 5 -> Contains(code, <<"async", " ", "def">>) \/ Contains(code, <<"await", " ">>)
      [] k = 6 -> Contains(code, <<"print", "(">>)
      [] k = 7 -> PrintStmt(code)

MarkersIn(code) == {k \in 1..7 : Marker(k, code)}

NoHeadVersion(code) ==
    LET head == HeadOf(code)
    IN  \A i \in 1..Len(head) : ~IsShebangLine(head[i]) /\ ~IsRequiresLine(head[i])

\* C17: when the first 10 lines hold neither a shebang version nor a 'requires'
\* version, detect_python_version returns the version of the first syntax
\* marker that matches, in the order match statement (3.10), '|' without
\* 'Union' (3.10), ':=' (3.8), f-string prefix (3.6), 'async def' or 'await '
\* (3.5), 'print(' (3.0), print statement (2.7); when none matches it returns
\* the version of the running interpreter.
C17_FirstMarkerWins ==
    fn_pc = "detect_python_version" /\ NoHeadVersion(fn_code) =>
        IF MarkersIn(fn_code) = {} THEN fn_out = current_version
        ELSE fn_out = MarkerVersions[Least(MarkersIn(fn_code))]

\* ':=' and the union bar in one text: the bar, tested first, decides
C17_Witness ==
    /\ fn_pc = "detect_python_version" /\ NoHeadVersion(fn_code)
    /\ {2, 3, 6} \subseteq MarkersIn(fn_code) /\ 1 \notin MarkersIn(fn_code)
    /\ fn_out = <<3, 10>>

\* a union bar next to the word Union is not a marker: the later marker decides
C17_WitnessUnion ==
    /\ fn_pc = "detect_python_version" /\ NoHeadVersion(fn_code)
    /\ Contains(fn_code, <<" ", "|", " ">>) /\ Contains(fn_code, <<"Union">>)
    /\ MarkersIn(fn_code) = {5} /\ fn_out = <<3, 5>>

\* the call and the statement form of print
C17_WitnessPrint ==
    /\ fn_pc = "detect_python_version" /\ NoHeadVersion(fn_code)
    /\ MarkersIn(fn_code) = {6, 7} /\ fn_out = <<3, 0>>

\* no marker at all: the interpreter's own version
C17_WitnessRuntime ==
    /\ fn_pc = "detect_python_version" /\ NoHeadVersion(fn_code)
    /\ fn_code # <<>> /\ MarkersIn(fn_code) = {} /\ fn_out = current_version

---------------------------------------------------------------------------
\* Defaults of the optional fields

\* the request of invocation p reached a facade operation and lacks the field
Lacks(p, ops, field) ==
    CalledOp(p, ops) /\ field \notin DOMAIN req[p][1].arguments

\* C18: a missing optional field is replaced by its default, whichever
\* transport carries the request: fileName by "temp.py", pythonVersion by
\* "auto" (the version is detected from the source), filter by no filtering,
\* maxLineLength by 79.
C18_Defaults ==
    \A p \in Procs :
        /\ Lacks(p, {"analyze_code", "get_symbols", "calculate_metrics"} \cup FileOps, "fileName")
              => Args(p)[2] = "temp.py"
        /\ Lacks(p, {"analyze_code"}, "pythonVersion")
              => /\ Args(p)[3] = None
                 /\ ~Out(p).raised =>
                       Out(p).value.detected_version
                           = VersionStr(detect_python_version(Args(p)[1]))
        /\ Lacks(p, {"get_symbols"}, "filter")
              => /\ Args(p)[3] = None
                 /\ Out(p) = get_symbols(Args(p)[1], Args(p)[2], None)
        /\ Lacks(p, {"format_with_autopep8"}, "maxLineLength")
              => Args(p)[2] = 79

\* a request over HTTP with the source alone: analysed as temp.py, for the
\* version its 'requires' comment names and not the interpreter's
C18_Witness ==
    \E p \in Procs :
        /\ CalledOp(p, {"analyze_code"}) /\ req[p][1].transport = "http"
        /\ DOMAIN req[p][1].arguments = {"code"}
        /\ Args(p) = <<C_features, "temp.py", None>>
        /\ Out(p).value.detected_version = VersionStr(<<3, 8>>)
        /\ <<3, 8>> # current_version

\* the same through the tool transport
C18_WitnessTool ==
    \E p \in Procs :
        /\ CalledOp(p, {"analyze_code"}) /\ req[p][1].transport = "tool"
        /\ DOMAIN req[p][1].arguments = {"code"}
        /\ Args(p) = <<C_features, "temp.py", None>>

\* the formatter's line length and the symbol filter left out
C18_WitnessLength ==
    \E p \in Procs :
        /\ CalledOp(p, {"format_with_autopep8"}) /\ req[p][1].transport = "http"
        /\ DOMAIN req[p][1].arguments = {"code"} /\ Args(p)[2] = 79

C18_WitnessFilter ==
    \E p \in Procs :
        /\ CalledOp(p, {"get_symbols"}) /\ DOMAIN req[p][1].arguments = {"code"}
        /\ Args(p) = <<C_nested, "temp.py", None>> /\ Out(p).value.count = 4

\* a file-based operation without a file name
C18_WitnessFileOp ==
    \E p \in Procs :
        /\ CalledOp(p, {"comprehensive_lint"}) /\ DOMAIN req[p][1].arguments = {"code"}
        /\ Args(p)[2] = "temp.py" /\ Len(DiagnosticsOf(p)) > 0
        /\ DiagnosticsOf(p)[1].file = Some("temp.py")

---------------------------------------------------------------------------
\* Unknown tool names

\* C19: a tool call whose name is none of the nine operations is answered with
\* a result of success false whose error text names the unknown operation; no
\* facade operation is called for it and nothing is raised.
C19_UnknownToolRefused ==
    \A p \in Procs :
        (Done(p) /\ req[p][1].transport = "tool" /\ req[p][1].name \notin ToolNames)
            => /\ ret[p] = None
               /\ "fault" \notin DOMAIN result[p][1]
               /\ Body(result[p][1]).success = FALSE
               /\ Body(result[p][1]).error = "Unknown tool: " \o req[p][1].name

\* a misspelt name sent with a source: the answer names it
C19_Witness ==
    \E p \in Procs :
        /\ Done(p) /\ req[p][1].name = "analyse_code"
        /\ "code" \in DOMAIN req[p][1].arguments
        /\ Body(result[p][1]).error = "Unknown tool: analyse_code"

---------------------------------------------------------------------------
\* Average complexity

\* radon measured the source of invocation p without raising
Measured(p) ==
    /\ CalledOp(p, {"calculate_metrics"}) /\ has["radon"] /\ ast_parse(Args(p)[1]).ok
    /\ answer[p] # None /\ answer[p][1].fault = None

\* C20: calculate_metrics never fails with a division fault: average_complexity
\* is cyclomatic_complexity divided by the number of measured units when there
\* is at least one, and 0.0 when there is none.
C20_AverageComplexity ==
    \A p \in Procs :
        /\ CalledOp(p, {"calculate_metrics"}) /\ ~Out(p).raised /\ ~Out(p).value.success
              => Out(p).value.error # "division by zero"
        /\ Measured(p)
              => LET units == Len(answer[p][1].cc)
                     metrics == Out(p).value.metrics
                 IN  /\ ~Out(p).raised /\ Out(p).value.success
                     /\ units >= 1 => metrics.average_complexity
                                         = <<metrics.cyclomatic_complexity, units>>
                     /\ units = 0 => metrics.average_complexity = <<0, 1>>

\* the empty source, in which radon finds no unit
C20_Witness ==
    \E p \in Procs :
        /\ Measured(p) /\ Args(p)[1] = <<>> /\ answer[p][1].cc = <<>>
        /\ Out(p).value.metrics.average_complexity = <<0, 1>>

\* two units of complexity 1 and 3: the average is 4 / 2
C20_WitnessUnits ==
    \E p \in Procs :
        /\ Measured(p) /\ answer[p][1].cc = <<1, 3>>
        /\ Out(p).value.metrics.average_complexity = <<4, 2>>

---------------------------------------------------------------------------
\* Metrics, all or nothing

MetricFields ==
    {"lines_of_code", "comment_lines", "blank_lines", "total_lines", "cyclomatic_complexity",
     "maintainability_index", "function_count", "class_count", "average_complexity"}

\* C21: calculate_metrics is all or nothing: when the parse or one of the
\* measurements (complexity, maintainability index, raw counts) raises, the
\* result has success false, the exception's message as error and no metrics
\* record; a result with success true has the complete metrics record, in which
\* total_lines = lines_of_code + comment_lines + blank_lines.
C21_AllOrNothing ==
    \A p \in Procs :
        CalledOp(p, {"calculate_metrics"}) /\ has["radon"]
            => LET parsed == ast_parse(Args(p)[1])
                   v == Out(p).value
               IN  /\ ~Out(p).raised
                   /\ ~parsed.ok
                         => /\ v = [success |-> FALSE,
                                    error |-> IF parsed.syntax THEN "invalid syntax" ELSE parsed.exc]
                   /\ parsed.ok /\ AnalyzerFaulted(p)
                         => v = [success |-> FALSE, error |-> answer[p][1].fault[1]]
                   /\ v.success
                         => /\ parsed.ok /\ ~AnalyzerFaulted(p)
                            /\ DOMAIN v = {"success", "metrics"}
                            /\ DOMAIN v.metrics = MetricFields
                            /\ v.metrics.total_lines
                                  = v.metrics.lines_of_code + v.metrics.comment_lines
                                      + v.metrics.blank_lines

\* the maintainability index raised on a source with a function and a class
C21_Witness ==
    \E p \in Procs :
        /\ CalledOp(p, {"calculate_metrics"}) /\ Args(p)[1] = C_typed
        /\ AnalyzerFaulted(p) /\ answer[p][1].fault = Some("mi_visit failed")
        /\ Out(p).value = [success |-> FALSE, error |-> "mi_visit failed"]

\* the parser raised something other than a syntax error
C21_WitnessParse ==
    \E p \in Procs :
        /\ CalledOp(p, {"calculate_metrics"}) /\ has["radon"] /\ Args(p)[1] = L_surrogate
        /\ ~Out(p).raised /\ ~Out(p).value.success

\* a measured source: four lines in all
C21_WitnessComplete ==
    \E p \in Procs :
        /\ Measured(p) /\ Out(p).value.success
        /\ Out(p).value.metrics.total_lines = 4 /\ Out(p).value.metrics.function_count = 1

---------------------------------------------------------------------------
\* Completions

\* C22: get_completions returns the first min(50, n) of the n candidates the
\* completion library produced, in its order, and count is the number
\* returned; no candidate gives success true with count 0; an exception from
\* the library gives a failure result with an error.
C22_FirstFifty ==
    \A p \in Procs :
        CalledOp(p, {"get_completions"}) /\ has["jedi"]
            => LET v == Out(p).value
                   env == answer[p][1]
               IN  /\ ~Out(p).raised
                   /\ env.fault # None => v = [success |-> FALSE, error |-> env.fault[1]]
                   /\ env.fault = None
                         => LET n == Len(env.completions)
                                k == IF n < 50 THEN n ELSE 50
                            IN  /\ v.success /\ v.count = k /\ Len(v.completions) = k
                                /\ \A i \in 1..k :
                                      /\ v.completions[i].name = env.completions[i].name
                                      /\ v.completions[i].type = env.completions[i].type
                                      /\ v.completions[i].description
                                            = env.completions[i].description

\* 51 candidates: the first 50 are returned, the last one is dropped
C22_Witness ==
    \E p \in Procs :
        /\ CalledOp(p, {"get_completions"}) /\ has["jedi"] /\ answer[p][1].fault = None
        /\ Len(answer[p][1].completions) = 51
        /\ Out(p).value.count = 50 /\ Out(p).value.completions[50].name = 50

\* candidates that do not come sorted stay as they came
C22_WitnessOrder ==
    \E p \in Procs :
        /\ CalledOp(p, {"get_completions"}) /\ has["jedi"] /\ answer[p][1].fault = None
        /\ Out(p).value.count = 2
        /\ Out(p).value.completions[1].name = 2 /\ Out(p).value.completions[2].name = 1

\* no candidate
C22_WitnessEmpty ==
    \E p \in Procs :
        /\ CalledOp(p, {"get_completions"}) /\ has["jedi"] /\ answer[p][1].fault = None
        /\ Out(p).value = [success |-> TRUE, completions |-> <<>>, count |-> 0]

\* the library raised
C22_WitnessFault ==
    \E p \in Procs :
        /\ CalledOp(p, {"get_completions"}) /\ AnalyzerFaulted(p)
        /\ Out(p).value.error = "jedi failed"

---------------------------------------------------------------------------
\* Two severities

\* C23: in every result of analyze_code, type_check and comprehensive_lint
\* that carries a diagnostics list, each diagnostic's severity is 'error' or
\* 'warning', so error_count + warning_count is the number of diagnostics.
C23_TwoSeverities ==
    \A p \in Procs :
        (/\ CalledOp(p, {"analyze_code", "type_check", "comprehensive_lint"})
         /\ ~Out(p).raised /\ "diagnostics" \in DOMAIN Out(p).value)
            => /\ \A k \in 1..Len(DiagnosticsOf(p)) :
                     DiagnosticsOf(p)[k].severity \in {"error", "warning"}
               /\ Out(p).value.error_count + Out(p).value.warning_count
                     = Len(DiagnosticsOf(p))

\* a compatibility warning, a pyflakes message of neither pattern and one that
\* is an error, in one result
C23_Witness ==
    \E p \in Procs :
        /\ CalledOp(p, {"analyze_code"}) /\ ~Out(p).raised
        /\ CompatPart(DiagnosticsOf(p)) # <<>>
        /\ \E k \in 1..Len(DiagnosticsOf(p)) :
              /\ DiagnosticsOf(p)[k].category = "PyflakesWarning"
              /\ PyflakesSeverityInfo(DiagnosticsOf(p)[k].message) = "info"
        /\ Out(p).value.error_count + Out(p).value.warning_count >= 2

\* a mypy note next to a mypy error
C23_WitnessMypy ==
    \E p \in Procs :
        /\ CalledOp(p, {"type_check"}) /\ Len(DiagnosticsOf(p)) = 2
        /\ Out(p).value.error_count = 1 /\ Out(p).value.warning_count = 1

---------------------------------------------------------------------------
(* The two transports side by side *)

\* The result record a response carries, if it carries one
RecordOf(r) == IF "fault" \in DOMAIN r THEN None ELSE Some(Body(r))

\* C24: the two transports have the same semantics: whatever request with its
\* required fields is served, the response it got is the one its transport
\* makes of the facade's outcome, and the tool-call adapter and the HTTP
\* adapter make the same result record of that outcome.
C24_SameResult ==
    \A p \in Procs :
        (Done(p) /\ ret[p] # None) =>
            /\ result[p][1] = Respond(req[p][1].transport, Out(p))
            /\ RecordOf(Respond("tool", Out(p))) = RecordOf(Respond("http", Out(p)))

\* The facade returned: both transports carry its record
C24_WitnessReturned ==
    \E p \in Procs :
        /\ Done(p) /\ ret[p] # None /\ ~Out(p).raised
        /\ req[p][1].transport = "http"
        /\ RecordOf(Respond("tool", Out(p))) = Some(Out(p).value)
        /\ RecordOf(result[p][1]) = Some(Out(p).value)

\* The facade raised: the tool call answers a failure record, HTTP none
C24_WitnessRaised ==
    \E p \in Procs :
        /\ Done(p) /\ ret[p] # None /\ Out(p).raised
        /\ req[p][1].transport = "http"
        /\ RecordOf(result[p][1]) = None
        /\ RecordOf(Respond("tool", Out(p))) # None

---------------------------------------------------------------------------
(* Lines outside the grammar *)

\* `file:line:col: ...`, the form the parsers' comments give for a line
InGrammar(line) ==
    /\ Len(line) >= 8
    /\ line[2] = ":" /\ IsNum(line[3])
    /\ line[4] = ":" /\ IsNum(line[5])
    /\ line[6] = ":" /\ line[7] = " "

\* pylint's `file:line:col: CODE: message`
InPylintGrammar(line) ==
    InGrammar(line) /\ Len(line) >= 11 /\ line[8] \in PylintCodes /\ line[9] = ":"

\* `file:line: severity: message`, a line of mypy without a column
ColumnLess(line) ==
    /\ Len(line) >= 6
    /\ line[2] = ":" /\ IsNum(line[3]) /\ line[4] = ":" /\ ~IsNum(line[5])
    /\ \E i \in 5..Len(line) : line[i] = ":"

\* The lines the analyzer printed for invocation p
OutputLines(p) ==
    LET env == answer[p][1]
    IN  IF "stdout" \in DOMAIN env THEN Split(env.stdout, "\n") ELSE Split(env.output, "\n")

\* The three operations that parse an analyzer's lines, the analyzer having
\* answered without an exception
ParsedLines(p) ==
    /\ CalledOp(p, {"analyze_code", "type_check", "comprehensive_lint"})
    /\ answer[p] # None /\ answer[p][1].fault = None
    /\ ~Out(p).raised /\ "diagnostics" \in DOMAIN Out(p).value

\* The diagnostics made of the analyzer's lines
FromLines(p) ==
    LET IsLine(d) == d.category \in {"PyflakesWarning", "TypeCheck", "Pylint"}
    IN  SelectSeq(DiagnosticsOf(p), IsLine)

\* The diagnostics of p are those of the lines `kept`, one each and in order,
\* both counts cover them, and the result is no failure
MadeOf(p, kept) ==
    LET r == Out(p).value
        ds == FromLines(p)
    IN  /\ Len(ds) = Len(kept)
        /\ \A k \in 1..Len(ds) :
              /\ ds[k].line = Some(ToInt(kept[k][3]))
              /\ ds[k].column = Some(IF IsNum(kept[k][5]) THEN ToInt(kept[k][5]) ELSE 0)
        /\ r.error_count + r.warning_count = Len(r.diagnostics)
        /\ "error" \notin DOMAIN r
        /\ r.success = IF ret[p][1].op = "type_check" THEN answer[p][1].exit_code = 0
                       ELSE \A k \in 1..Len(r.diagnostics) : r.diagnostics[k].severity # "error"

\* C25 as stated: in the static-error detector, type_check and
\* comprehensive_lint the diagnostics are exactly those of the lines that
\* follow the analyzer's grammar, in output order; every other line is skipped
\* and changes neither the counts nor the success of the call.
C25_MalformedSkipped ==
    \A p \in Procs :
        ParsedLines(p) =>
            LET lines == OutputLines(p)
                WellFormed(l) == IF ret[p][1].op = "comprehensive_lint"
                                 THEN InPylintGrammar(l) ELSE InGrammar(l)
            IN  MadeOf(p, SelectSeq(lines, WellFormed))

\* C25: the same, except that type_check also keeps a line without a column
\* (`file:line: severity: message`) and reports it at column 0; the lines it
\* skips are those with fewer than three colons or no integer line number.
C25_OffGrammarSkipped ==
    \A p \in Procs :
        ParsedLines(p) =>
            LET lines == OutputLines(p)
                Kept(l) == CASE ret[p][1].op = "comprehensive_lint" -> InPylintGrammar(l)
                             [] ret[p][1].op = "type_check" -> InGrammar(l) \/ ColumnLess(l)
                             [] OTHER -> InGrammar(l)
            IN  MadeOf(p, SelectSeq(lines, Kept))

\* A line outside the grammar among the output of each analyzer, skipped
C25_Witness ==
    \E p \in Procs :
        /\ ParsedLines(p) /\ ret[p][1].op = "analyze_code"
        /\ \E k \in 1..Len(OutputLines(p)) : OutputLines(p)[k] = P_malformed
        /\ Len(FromLines(p)) = 1

C25_WitnessMypy ==
    \E p \in Procs :
        /\ ParsedLines(p) /\ ret[p][1].op = "type_check"
        /\ OutputLines(p)[1] = M_noline /\ OutputLines(p)[2] = M_error
        /\ Len(FromLines(p)) = 1 /\ Out(p).value.success

C25_WitnessNoColumn ==
    \E p \in Procs :
        /\ ParsedLines(p) /\ ret[p][1].op = "type_check"
        /\ OutputLines(p)[1] = M_nocolumn
        /\ Len(FromLines(p)) >= 1 /\ FromLines(p)[1].column = Some(0)

C25_WitnessPylint ==
    \E p \in Procs :
        /\ ParsedLines(p) /\ ret[p][1].op = "comprehensive_lint"
        /\ OutputLines(p)[1] = Y_header /\ OutputLines(p)[2] = Y_error
        /\ Len(FromLines(p)) = 1 /\ ~Out(p).value.success

---------------------------------------------------------------------------
(* The pythonVersion argument *)

\* Version strings that are neither 'auto' nor numbers
BadVersions == {<<"abc">>, <<"3", ".", "x">>}

\* The version a well-formed string names, minor 0 when only a major is given
Supplied(v) ==
    CASE v = <<"3", ".", "7">> -> <<3, 7>>
      [] v = <<"3", ".", "11">> -> <<3, 11>>
      [] v = <<"3">> -> <<3, 0>>

\* analyze_code has answered request p, which carried the field pythonVersion
AnalyzedWithVersion(p) ==
    /\ CalledOp(p, {"analyze_code"}) /\ ~Out(p).raised
    /\ "pythonVersion" \in DOMAIN req[p][1].arguments

\* What the same request gets when its pythonVersion is 'auto'
AsAuto(p) ==
    LET a == req[p][1].arguments
    IN  tools_analyze_code(a["code"], Get(a, "fileName"), Some(<<"auto">>),
                           IF answer[p] = None THEN QuietEnv ELSE answer[p][1]).out

\* C26: a pythonVersion string that is neither 'auto' nor a number 'major' or
\* 'major.minor' is not reported as an error: the facade is called without a
\* target version and the result is the one 'auto' gets.  A well-formed
\* version comes back in detected_version, with minor 0 when only the major is
\* given, whatever version markers the source holds.
C26_VersionArgument ==
    \A p \in Procs :
        AnalyzedWithVersion(p) =>
            LET v == req[p][1].arguments["pythonVersion"]
                r == Out(p).value
            IN  /\ v \in BadVersions =>
                      /\ Args(p)[3] = None
                      /\ "error" \notin DOMAIN r
                      /\ r.detected_version = VersionStr(detect_python_version(Args(p)[1]))
                      /\ Out(p) = AsAuto(p)
                /\ v \notin BadVersions \cup {<<"auto">>} =>
                      r.detected_version = VersionStr(Supplied(v))

\* 'abc' on a source whose comment asks for 3.8: analysed as for 3.8
C26_Witness ==
    \E p \in Procs :
        /\ AnalyzedWithVersion(p)
        /\ req[p][1].arguments["pythonVersion"] = <<"abc">>
        /\ Args(p)[1] = C_features
        /\ Out(p).value.detected_version = <<"3", ".", "8">>

C26_WitnessPartial ==
    \E p \in Procs :
        /\ AnalyzedWithVersion(p)
        /\ req[p][1].arguments["pythonVersion"] = <<"3", ".", "x">>
        /\ Out(p) = AsAuto(p) /\ Len(DiagnosticsOf(p)) > 0

\* '3' on the same source: 3.0 comes back, not the marker's 3.8
C26_WitnessMajor ==
    \E p \in Procs :
        /\ AnalyzedWithVersion(p)
        /\ req[p][1].arguments["pythonVersion"] = <<"3">>
        /\ Args(p)[1] = C_features
        /\ Out(p).value.detected_version = <<"3", ".", "0">>

C26_WitnessEcho ==
    \E p \in Procs :
        /\ AnalyzedWithVersion(p)
        /\ req[p][1].arguments["pythonVersion"] = <<"3", ".", "7">>
        /\ Args(p)[1] = C_features
        /\ Out(p).value.detected_version = <<"3", ".", "7">>

---------------------------------------------------------------------------
(* The formatters leave the text alone when they fail *)

Formatters == {"format_code", "format_with_autopep8"}

\* The library behind a formatter
FormatterOf(op) == IF op = "format_code" THEN "black" ELSE "autopep8"

\* C27: format_code and format_with_autopep8 fail exactly when the formatter
\* is absent or raised; a result with success false holds the caller's text
\* unchanged in formatted_code together with an error message, and a result
\* with success true has no error field.
C27_InputKeptOnFailure ==
    \A p \in Procs :
        CalledOp(p, Formatters) =>
            /\ ~Out(p).raised
            /\ LET r == Out(p).value
               IN  /\ r.success = (has[FormatterOf(ret[p][1].op)] /\ ~AnalyzerFaulted(p))
                   /\ ~r.success => /\ r.formatted_code = Args(p)[1]
                                    /\ "error" \in DOMAIN r /\ r.error # ""
                   /\ r.success => "error" \notin DOMAIN r

\* The formatter raised on a text it would have changed
C27_Witness ==
    \E p \in Procs :
        /\ CalledOp(p, {"format_with_autopep8"}) /\ AnalyzerFaulted(p)
        /\ ~Out(p).value.success
        /\ Out(p).value.formatted_code = Args(p)[1]
        /\ Reformat(Args(p)[1]) # Args(p)[1]

C27_WitnessBlack ==
    \E p \in Procs :
        /\ CalledOp(p, {"format_code"}) /\ AnalyzerFaulted(p)
        /\ Out(p).value.formatted_code = Args(p)[1]
        /\ Reformat(Args(p)[1]) # Args(p)[1]

C27_WitnessAbsent ==
    \E p \in Procs :
        /\ CalledOp(p, Formatters) /\ ~has[FormatterOf(ret[p][1].op)]
        /\ Out(p).value.error \in {"black is not installed", "autopep8 is not installed"}
        /\ Out(p).value.formatted_code = Args(p)[1] /\ Args(p)[1] # <<>>

C27_WitnessFormatted ==
    \E p \in Procs :
        /\ CalledOp(p, Formatters) /\ Out(p).value.success
        /\ Out(p).value.formatted_code # Args(p)[1]

---------------------------------------------------------------------------
(* Symbols at every depth *)

\* The definitions written in a text, at any depth: kind, name and line
DefinitionsOf(code) ==
    LET stmts == {st \in StatementsOf(code) : st.text # <<>>}
    IN  {[kind |-> "class", name |-> st.text[3], line |-> st.line] :
            st \in {s \in stmts : s.text[1] = "class"}}
        \cup {[kind |-> "function", name |-> st.text[3], line |-> st.line] :
                 st \in {s \in stmts : s.text[1] = "def"}}
        \cup {[kind |-> "function", name |-> st.text[5], line |-> st.line] :
                 st \in {s \in stmts : s.text[1] = "async" /\ Len(s.text) >= 5 /\ s.text[3] = "def"}}
        \cup {[kind |-> "variable", name |-> st.text[1], line |-> st.line] :
                 st \in {s \in stmts : AnnotatedSimpleName(s.text)}}

\* C28: symbol extraction visits every node of the tree: every class, function
\* and annotated simple name written in the text, at the top level or nested
\* in a class or function body, is reported once, a function in a class with
\* kind 'function'; every symbol has kind class, function or variable and no
\* container_name.
C28_EveryNodeVisited ==
    \A p \in Procs :
        (CalledOp(p, {"get_symbols"}) /\ ~Out(p).raised /\ Out(p).value.success) =>
            LET symbols == Out(p).value.symbols
                wanted == {d \in DefinitionsOf(Args(p)[1]) :
                              Args(p)[3] = None \/ Args(p)[3] = Some(d.kind)}
            IN  /\ \A k \in 1..Len(symbols) :
                      /\ symbols[k].kind \in {"class", "function", "variable"}
                      /\ symbols[k].container_name = None
                /\ {[kind |-> symbols[k].kind, name |-> symbols[k].name,
                     line |-> symbols[k].line] : k \in 1..Len(symbols)} = wanted
                /\ Len(symbols) = Cardinality(wanted)

\* A method and a field of a class block, after the module's own statements
C28_Witness ==
    \E p \in Procs :
        /\ CalledOp(p, {"get_symbols"}) /\ Args(p)[1] = C_method /\ Args(p)[3] = None
        /\ Out(p).value.symbols =
               <<SymbolInfo("B", "class", 1, 0, None, FALSE),
                 SymbolInfo("x", "variable", 4, 0, Some(<<"int">>), FALSE),
                 SymbolInfo("g", "function", 2, 1, None, FALSE),
                 SymbolInfo("v", "variable", 3, 1, Some(<<"int">>), FALSE)>>

\* An annotated name in a function body
C28_WitnessLocal ==
    \E p \in Procs :
        /\ CalledOp(p, {"get_symbols"}) /\ Args(p)[1] = C_local /\ Args(p)[3] = None
        /\ Out(p).value.symbols =
               <<SymbolInfo("h", "function", 1, 0, None, FALSE),
                 SymbolInfo("A", "class", 3, 0, None, FALSE),
                 SymbolInfo("v", "variable", 2, 1, Some(<<"int">>), FALSE)>>

\* The local of a method comes after the field of the class
C28_WitnessDeep ==
    \E p \in Procs :
        /\ CalledOp(p, {"get_symbols"}) /\ Args(p)[1] = C_deep /\ Args(p)[3] = None
        /\ Out(p).value.symbols =
               <<SymbolInfo("B", "class", 1, 0, None, FALSE),
                 SymbolInfo("g", "function", 2, 1, None, FALSE),
                 SymbolInfo("v", "variable", 4, 1, Some(<<"int">>), FALSE),
                 SymbolInfo("s", "variable", 3, 2, Some(<<"int">>), FALSE)>>

\* A class head with no block is a syntax error
C28_WitnessHeadless ==
    \E p \in Procs :
        /\ CalledOp(p, {"get_symbols"}) /\ Args(p)[1] = C_headless
        /\ ~Out(p).value.success /\ Out(p).value.count = 0

=============================================================================
